---- MODULE Spec2Model ----
(***************************************************************************)
(* Model of the NB28 adapters and of the proxy in front of the backend.    *)
(*                                                                         *)
(*   Spec        non-streaming calls of the Anthropic pipe                 *)
(*               (src/NB28/claude.py): Pipe.pipe, the retry loop of        *)
(*               Pipe._send_request and the handling of the response.      *)
(*   FairSpec    Spec with weak fairness on the steps of a running call.   *)
(*   SpecStream  streaming calls of the Anthropic pipe: Pipe.pipe and the  *)
(*               stream decoder of Pipe._stream_with_ui.                   *)
(*   SpecPplx    the Perplexity pipe (src/NB28/perplexity.py): the stream  *)
(*               decoder of Pipe.pipe.                                     *)
(*   SpecDecoders  the stream decoders of both adapters, for the           *)
(*               properties stated of both.                                *)
(*   SpecRequest   one request through either adapter, from the inbound    *)
(*               body to the upstream payload and the answer, on an        *)
(*               instance that may have served requests before.            *)
(*   SpecFrames  one streaming call of the Anthropic pipe whose stream     *)
(*               carries JSON objects of every kind, the frame types the   *)
(*               decoder does not handle and objects without a key it      *)
(*               reads included.                                           *)
(*   SpecInterleaved  two concurrent calls of one Perplexity instance.     *)
(*   SpecRefs    Pipe._transform_references as a pure function.            *)
(*   SpecTitles  Pipe._format_references and its concurrent title fetches. *)
(*   SpecMessages  Pipe._process_messages of the Perplexity pipe, one      *)
(*               iteration of its loop at a time, under weak fairness.     *)
(*   SpecSinks   every call of either adapter, streaming or not, for the   *)
(*               status events a request emits.                            *)
(*   SpecProxy   one POST /v1/chat/completions of the proxy                *)
(*               (src/proxy.py) and the answer of its backend.             *)
(*                                                                         *)
(* A text is a sequence of string tokens: the pieces an f-string or a      *)
(* concatenation is built from, in order.                                  *)
(***************************************************************************)
EXTENDS Integers, Sequences, FiniteSets, TLC

\* ---------------------------------------------------------------- bounds
\* content blocks in one non-streaming response
MaxBlocks == 2
\* lines of one Anthropic streamed response (SpecStream)
MaxFrames == 4
\* lines of one streamed response of either adapter (SpecPplx, SpecDecoders)
MaxLines == 3
\* items in the content list of a request's message (SpecRequest)
MaxItems == 2
\* lines read by two interleaved Perplexity calls together (SpecInterleaved)
MaxInterleaved == 2
\* URLs in the citation list given to _format_references (SpecTitles)
MaxCitations == 3
\* messages in the body of a Perplexity request (SpecRequest)
MaxMessages == 2
\* messages in the list _process_messages is given by itself
MaxHistory == 4
\* messages in the body of a proxy request
MaxTurns == 2
\* events in the answer of the proxy's backend
MaxEvents == 2
\* characters of a text given to _transform_references (SpecRefs)
MaxChars == 6

\* ------------------------------------------------------ program constants
max_retries == 3
base_delay == 1

\* --------------------------------------------------------------- helpers
RECURSIVE Pow2(_)
Pow2(n) == IF n = 0 THEN 1 ELSE 2 * Pow2(n - 1)

RECURSIVE Flatten(_)
Flatten(ss) == IF ss = <<>> THEN <<>> ELSE Head(ss) \o Flatten(Tail(ss))

SeqsUpTo(S, n) == UNION {[1..k -> S] : k \in 0..n}

Contains(text, tok) == \E i \in 1..Len(text) : text[i] = tok

\* Python truthiness of an Optional[str] header value / field
None == "None"

\* (mutant) only None is falsy: an empty string passes for a value
TruthyUnlessNone(v) == v # None

Truthy(v) == v # None /\ v # ""

\* ------------------------------------------------------------- variables
VARIABLES
    valves,            \* self.valves: ANTHROPIC_API_KEY (set or empty), ENABLE_THINKING,
                       \* MAX_OUTPUT_TOKENS, ENABLE_TOOL_CHOICE
    request_id,        \* self.request_id
    pc,                \* position of the current pipe call
    body,              \* inbound request body of the current call, as it was passed
    inbound,           \* the content list of the caller's message as the call left it
    payload,           \* the payload pipe built for the vendor call
    headers,           \* the beta flags of its anthropic-beta header, in order
    emitter,           \* whether __event_emitter__ was given
    retry_count,       \* _send_request: retry_count
    requests,          \* HTTP requests issued by the current call
    slept,             \* asyncio.sleep durations of the current call, in order
    attempts,          \* upstream outcomes of the current call, in order
    result,            \* value pipe returned: [type, text]
    statuses,          \* status events delivered to the sink by the current call
    lines,             \* stream: lines read so far
    out,               \* stream: chunks yielded so far, [frame, text]
    is_thinking,       \* _stream_with_ui: is_thinking
    thinking_content,  \* _stream_with_ui: thinking_content
    p_valves,          \* Perplexity self.valves: PERPLEXITY_API_KEY
    p_body,            \* Perplexity: inbound body of the latest call, as it was passed
    p_inbound,         \* Perplexity: the caller's messages list as that call left it
    p_pc,              \* Perplexity: position of the current pipe call
    p_emitter,         \* Perplexity self.emitter (whether a sink is set)
    current_citations, \* Perplexity self.current_citations
    thinking_state,    \* Perplexity self.thinking_state["thinking"]
    first_chunk,       \* Perplexity pipe: first_chunk
    p_requests,        \* Perplexity: HTTP requests issued by the current call
    p_statuses,        \* Perplexity: status events delivered to the sink
    p_lines,           \* Perplexity: lines read so far
    p_out,             \* Perplexity: chunks yielded so far, [frame, text]
    emitter_of,        \* Perplexity: the call (1, 2) whose sink self.emitter is
    q_pc,              \* Perplexity, a second call on the same instance: position
    q_first_chunk,     \*   its first_chunk
    q_requests,        \*   HTTP requests it issued
    q_statuses,        \*   status events delivered to its sink
    q_lines,           \*   lines it read
    q_out,             \*   chunks it yielded
    tr_text,           \* _transform_references: text
    tr_citations,      \* _transform_references: citations
    tr_result,         \* _transform_references: the value returned
    g_citations,       \* _format_references: citations
    g_outcomes,        \* what the title fetch of each citation ended in
    g_order,           \* the fetches that have completed, in order of completion
    g_result,          \* _format_references: the value returned
    m_input,           \* _process_messages by itself: the list as it was passed
    m_messages,        \*   messages, the list being edited in place
    m_i,               \*   i, the loop index (from 0)
    x_pc,              \* proxy chat_completions: position of the request
    x_body,            \*   what req.json() gives
    x_sent,            \*   requests posted to the backend
    x_backend,         \*   what the backend call ended in
    x_response         \*   the HTTP response of the proxy

avars == <<valves, request_id, pc, body, inbound, payload, headers, emitter, retry_count, requests, slept,
           attempts, result, statuses, lines, out, is_thinking, thinking_content>>
qvars == <<q_pc, q_first_chunk, q_requests, q_statuses, q_lines, q_out>>
fvars == <<tr_text, tr_citations, tr_result>>
gvars == <<g_citations, g_outcomes, g_order, g_result>>
mvars == <<m_input, m_messages, m_i>>
xvars == <<x_pc, x_body, x_sent, x_backend, x_response>>
pvars == <<p_valves, p_body, p_inbound, p_pc, p_emitter, current_citations, thinking_state, first_chunk,
           p_requests, p_statuses, p_lines, p_out, emitter_of, qvars, fvars, gvars, mvars, xvars>>
vars == <<avars, pvars>>

\* ------------------------------------------------- upstream (the inputs)
RequestIdHeaders == {None, "req_A"}
RetryAfterHeaders == {"absent", "2", "Wed, 21 Oct 2026 07:28:00 GMT"}
OtherStatuses == {"400", "529"}
Models == {"claude-3-7-sonnet-latest", "claude-3-opus-latest"}

\* content blocks of a 200 response. A tool_use block either carries the
\* nested "tool_use" object pipe reads, or has id/name/input at top level;
\* a thinking block may have no (or an empty) "thinking" text.
Blocks ==
    {[type |-> "text", val |-> t] : t \in {"T1", "T2"}}
    \cup {[type |-> "thinking", val |-> k] : k \in {"K1", ""}}
    \cup {[type |-> "tool_use", val |-> v] : v \in {"nested", "flat"}}

NoOutcome == [kind |-> "none", status |-> "", rid |-> None, retry_after |-> "absent",
              payload |-> "", content |-> <<>>]

Outcome(k, s, r, ra, p, c) ==
    [kind |-> k, status |-> s, rid |-> r, retry_after |-> ra, payload |-> p, content |-> c]

\* what one HTTP POST of _send_request can end in
Outcomes ==
    {Outcome("client_error", "", None, "absent", "", <<>>),
     Outcome("timeout", "", None, "absent", "", <<>>)}
    \cup {Outcome("response", "429", r, ra, "", <<>>) :
            r \in RequestIdHeaders, ra \in RetryAfterHeaders}
    \cup {Outcome("response", s, r, "absent", p, <<>>) :
            s \in OtherStatuses, r \in RequestIdHeaders,
            p \in {"json_error", "plain", "read_error"}}
    \cup {Outcome("response", "200", r, "absent", p, <<>>) :
            r \in RequestIdHeaders, p \in {"not_json", "read_error"}}
    \cup {Outcome("response", "200", r, "absent", "json", c) :
            r \in RequestIdHeaders, c \in SeqsUpTo(Blocks, MaxBlocks)}

\* ------------------------------------------------------- texts and values
Str(text) == [type |-> "str", text |-> text]
Dict(text) == [type |-> "dict", text |-> text]
Generator == [type |-> "gen", text |-> <<>>]
NoResult == [type |-> "none", text |-> <<>>]

Status(text, done) == [description |-> text, done |-> done]

\* int(response.headers.get("retry-after", ...)): the header is a string
IsIntLiteral(h) == h \in {"2"}
IntOf(h) == CASE h = "2" -> 2

\* error_msg += f" (Request ID: {self.request_id})" under `if self.request_id`
WithRequestId(text, rid) ==
    IF Truthy(rid) THEN text \o <<" (Request ID: ", rid, ")">> ELSE text


\* ===================================================== Pipe._send_request
Continue(rc, delay) ==
    [ctl |-> "continue", retry_count |-> rc, sleep |-> <<delay>>,
     value |-> NoResult, exc |-> "", content |-> <<>>]
Return(v, c) ==
    [ctl |-> "return", retry_count |-> 0, sleep |-> <<>>,
     value |-> v, exc |-> "", content |-> c]
Raise(e) ==
    [ctl |-> "raise", retry_count |-> 0, sleep |-> <<>>,
     value |-> NoResult, exc |-> e, content |-> <<>>]

\* the `response.status == 429` branch
RateLimited(rc, o) ==
    IF o.retry_after = "absent"
    THEN Continue(rc + 1, base_delay * Pow2(rc))
    ELSE IF IsIntLiteral(o.retry_after)
         THEN Continue(rc + 1, IntOf(o.retry_after))
         ELSE Raise("invalid literal for int()")

\* (mutant) the handler never re-raises
TransportFailedNoRaise(rc) == Continue(rc + 1, base_delay * Pow2(rc + 1))

\* the `except aiohttp.ClientError` handler
TransportFailed(rc) ==
    IF rc < max_retries - 1
    THEN Continue(rc + 1, base_delay * Pow2(rc + 1))
    ELSE Raise("ClientError")

\* the `response.status != 200` branch
ErrorStatusText(o) ==
    WithRequestId(
        <<"Error: HTTP ", o.status, ": ">>
        \o (IF o.payload = "json_error" THEN <<"upstream message">> ELSE <<"upstream body">>),
        o.rid)

\* (mutant) a 529 (overloaded) is backed off and retried like a 429
SendRequestStepRetries529(rc, o) ==
    CASE o.kind = "client_error" -> TransportFailed(rc)
      [] o.kind = "timeout" -> Raise("")
      [] o.kind = "response" /\ o.status \in {"429", "529"} -> RateLimited(rc, o)
      [] o.kind = "response" /\ o.status \notin {"429", "529"} /\ o.payload = "read_error" ->
            TransportFailed(rc)
      [] o.kind = "response" /\ o.status \notin {"429", "529", "200"}
         /\ o.payload # "read_error" ->
            Return(Dict(ErrorStatusText(o)), <<>>)
      [] o.kind = "response" /\ o.status = "200" /\ o.payload = "not_json" ->
            Raise("JSONDecodeError")
      [] OTHER -> Return([type |-> "response", text |-> <<>>], o.content)

\* one iteration of the `while retry_count < max_retries` loop
SendRequestStep(rc, o) ==
    CASE o.kind = "client_error" -> TransportFailed(rc)
      [] o.kind = "timeout" -> Raise("")
      [] o.kind = "response" /\ o.status = "429" -> RateLimited(rc, o)
      [] o.kind = "response" /\ o.status # "429" /\ o.payload = "read_error" ->
            TransportFailed(rc)
      [] o.kind = "response" /\ o.status \notin {"429", "200"} /\ o.payload # "read_error" ->
            Return(Dict(ErrorStatusText(o)), <<>>)
      [] o.kind = "response" /\ o.status = "200" /\ o.payload = "not_json" ->
            Raise("JSONDecodeError")
      [] OTHER -> Return([type |-> "response", text |-> <<>>], o.content)

\* the statements after the loop
MaxRetriesExceeded == Return(Dict(<<"Max retries exceeded">>), <<>>)

\* (mutant) the loop condition does not look at the counter
LoopAgainUnbounded(st) == st.ctl = "continue"

\* whether the loop condition lets another iteration run
LoopAgain(st) == st.ctl = "continue" /\ st.retry_count < max_retries

\* ============================================ Pipe.pipe, non-streaming part
IsToolUse(b) == b.type = "tool_use"
IsThinking(b) == b.type = "thinking"
IsText(b) == b.type = "text"

\* json.dumps({"type": "tool_calls", "tool_calls": [...]}): one entry per block
ToolCallEnvelope(tool_blocks) ==
    <<"tool_calls">> \o [i \in 1..Len(tool_blocks) |-> "function_call"]

\* (mutant) the last block of the list is the one that is read
LastBlock(blocks) == blocks[Len(blocks)]

\* thinking_blocks[0], text_blocks[0]
FirstBlock(blocks) == blocks[1]

\* "Handle tool calls in the response" up to `return response_text`
HandleResponse(content, model_name, v) ==
    LET tool_blocks == SelectSeq(content, IsToolUse)
        thinking_blocks == SelectSeq(content, IsThinking)
        text_blocks == SelectSeq(content, IsText)
        thinking ==
            IF v.ENABLE_THINKING /\ model_name = "claude-3-7-sonnet-latest"
               /\ thinking_blocks # <<>>
            THEN FirstBlock(thinking_blocks).val ELSE None
        response_text == IF text_blocks # <<>> THEN FirstBlock(text_blocks).val ELSE ""
    IN  IF tool_blocks # <<>>
        THEN IF \E i \in 1..Len(tool_blocks) : tool_blocks[i].val # "nested"
             THEN [ctl |-> "raise", exc |-> "'tool_use'", value |-> NoResult,
                   status |-> <<>>]
             ELSE [ctl |-> "return", exc |-> "", value |-> Str(ToolCallEnvelope(tool_blocks)),
                   status |-> <<>>]
        ELSE [ctl |-> "return", exc |-> "",
              value |-> Str(IF Truthy(thinking)
                            THEN <<"### Thinking\n", thinking, "\n\n### Response\n",
                                   response_text>>
                            ELSE <<response_text>>),
              status |-> <<Status(<<"Request completed successfully">>, TRUE)>>]

\* the inner `except Exception` of pipe
RequestFailed(exc, rid) ==
    LET error_msg == WithRequestId(<<"Request failed: ", exc>>, rid)
    IN  [value |-> Dict(error_msg), status |-> <<Status(error_msg, TRUE)>>]

\* what pipe does with the outcome st of _send_request
PipeFinish(st, rid, model_name, v) ==
    IF st.ctl = "raise"
    THEN RequestFailed(st.exc, rid)
    ELSE IF st.value.type = "dict"
         THEN [value |-> Str(st.value.text), status |-> <<Status(st.value.text, TRUE)>>]
         ELSE LET h == HandleResponse(st.content, model_name, v)
              IN  IF h.ctl = "raise"
                  THEN RequestFailed(h.exc, rid)
                  ELSE [value |-> h.value, status |-> h.status]

\* events reach the sink only when __event_emitter__ was given
Emit(log, events, em) == IF em THEN log \o events ELSE log


\* ==================================================== Pipe._stream_with_ui
Line(k, t, sub, text) == [k |-> k, type |-> t, sub |-> sub, text |-> text]

\* the lines response.content can deliver
\*   k = "other": a line that does not start with "data: " (event:, blank)
\*   k = "done":  data: [DONE]
\*   k = "bad":   data: <payload json.loads rejects>
\*   k = "json":  data: <JSON object>; sub is content_block.type of a start
\*                frame ("tool_use_flat": a tool_use block without the nested
\*                "tool_use" object) and says whether a delta has "text"
AnthropicLines ==
    {Line("other", "", "", ""), Line("done", "", "", ""), Line("bad", "", "", "")}
    \cup {Line("json", "content_block_start", sub, "") :
            sub \in {"thinking", "text", "tool_use", "tool_use_flat"}}
    \cup {Line("json", "content_block_delta", "text", t) : t \in {"a", "b"}}
    \cup {Line("json", "content_block_delta", "no_text", "")}
    \cup {Line("json", t, "", "") : t \in {"content_block_stop", "message_stop", "ping"}}

\* the JSON objects a line can carry beyond those: the other frame types of
\* the vendor's stream, and objects without a key the decoder subscripts
\* (type None: no "type"; sub None: a content_block_start without
\* "content_block", a content_block_delta without "delta")
Frames ==
    {l \in AnthropicLines : l.k = "json"}
    \cup {Line("json", t, "", "") : t \in {"message_start", "message_delta", None}}
    \cup {Line("json", t, None, "") : t \in {"content_block_start", "content_block_delta"}}

ThinkingHeading == <<"\n### Thinking\n">>
ResponseHeading == <<"\n\n### Response\n">>
ToolCallChunk == <<"tool_calls", "function_call">>

Decoded(th, tc, chunks, ctl) ==
    [is_thinking |-> th, thinking_content |-> tc, chunks |-> chunks, ctl |-> ctl,
     exc |-> "", status |-> <<>>]

\* (mutant) a frame no branch handles ends the stream
IgnoredEndsStream(th, tc) == Decoded(th, tc, <<>>, "break")

\* no branch of the chain is taken: the loop goes to the next line
Ignored(th, tc) == Decoded(th, tc, <<>>, "next")

\* (mutant) the heading is yielded and is_thinking stays set
ThinkingStopStays(tc, enable) ==
    Decoded(TRUE, tc, IF enable THEN <<ResponseHeading>> ELSE <<>>, "next")

\* the branch `content_block_stop and is_thinking`
ThinkingStop(tc, enable) ==
    Decoded(FALSE, tc, IF enable THEN <<ResponseHeading>> ELSE <<>>, "next")

\* (mutant) the done status is sent and the loop reads on
MessageStopReadsOn(th, tc) ==
    [Decoded(th, tc, <<>>, "next") EXCEPT
        !.status = <<Status(<<"Request completed">>, TRUE)>>]

\* the branch `message_stop`: the done status, then break
MessageStop(th, tc) ==
    [Decoded(th, tc, <<>>, "break") EXCEPT
        !.status = <<Status(<<"Request completed">>, TRUE)>>]

\* (mutant) the KeyError is caught with the JSON errors and the frame skipped
KeyErrorSkipped(th, tc, key) == Decoded(th, tc, <<>>, "next")

\* a subscript of `data` finds no such key: the KeyError leaves the loop,
\* which catches json.JSONDecodeError only
KeyError(th, tc, key) == [Decoded(th, tc, <<>>, "raise") EXCEPT !.exc = key]

\* (mutant) a thinking delta is emitted whatever the toggle
ThinkingDeltaAlways(th, tc, data, enable) ==
    IF data.sub = None THEN KeyError(th, tc, "'delta'")
    ELSE IF data.sub = "text"
    THEN Decoded(th, tc \o <<data.text>>, <<<<data.text>>>>, "next")
    ELSE Decoded(th, tc, <<>>, "next")

\* the branch `content_block_delta and is_thinking`
ThinkingDelta(th, tc, data, enable) ==
    IF data.sub = None THEN KeyError(th, tc, "'delta'")
    ELSE IF data.sub = "text" /\ enable
    THEN Decoded(th, tc \o <<data.text>>, <<<<data.text>>>>, "next")
    ELSE Decoded(th, tc, <<>>, "next")

\* the if/elif chain over one decoded frame `data`
DecodeFrame(th, tc, data, enable) ==
    IF data.type = None
    THEN KeyError(th, tc, "'type'")
    ELSE IF data.type = "content_block_start" /\ data.sub = None
    THEN KeyError(th, tc, "'content_block'")
    ELSE IF data.type = "content_block_start" /\ data.sub = "thinking"
    THEN Decoded(TRUE, tc, IF enable THEN <<ThinkingHeading>> ELSE <<>>, "next")
    ELSE IF data.type = "content_block_delta" /\ th
    THEN ThinkingDelta(th, tc, data, enable)
    ELSE IF data.type = "content_block_stop" /\ th
    THEN ThinkingStop(tc, enable)
    ELSE IF data.type = "content_block_delta" /\ data.sub = None
    THEN KeyError(th, tc, "'delta'")
    ELSE IF data.type = "content_block_delta" /\ data.sub = "text" /\ ~th
    THEN Decoded(th, tc, <<<<data.text>>>>, "next")
    ELSE IF data.type = "content_block_start" /\ data.sub \in {"tool_use", "tool_use_flat"}
    THEN IF data.sub = "tool_use"
         THEN Decoded(th, tc, <<ToolCallChunk>>, "next")
         ELSE KeyError(th, tc, "'tool_use'")
    ELSE IF data.type = "message_stop"
    THEN MessageStop(th, tc)
    ELSE Ignored(th, tc)

\* (mutant) a payload json.loads rejects ends the stream
DecodeLineBadFatal(th, tc, line, enable) ==
    IF line.k = "other" THEN Decoded(th, tc, <<>>, "next")
    ELSE IF line.k = "done" THEN Decoded(th, tc, <<>>, "break")
    ELSE IF line.k = "bad" THEN Decoded(th, tc, <<>>, "break")
    ELSE DecodeFrame(th, tc, line, enable)

\* (mutant) no check for [DONE]: json.loads rejects it and the loop goes on
DecodeLineDoneIgnored(th, tc, line, enable) ==
    IF line.k = "other" THEN Decoded(th, tc, <<>>, "next")
    ELSE IF line.k \in {"done", "bad"} THEN Decoded(th, tc, <<>>, "next")
    ELSE DecodeFrame(th, tc, line, enable)

\* the body of `async for line in response.content`
DecodeLine(th, tc, line, enable) ==
    IF line.k = "other" THEN Decoded(th, tc, <<>>, "next")
    ELSE IF line.k = "done" THEN Decoded(th, tc, <<>>, "break")
    ELSE IF line.k = "bad" THEN Decoded(th, tc, <<>>, "next")
    ELSE DecodeFrame(th, tc, line, enable)

\* the chunks a step yields, each tagged with the number of the line it
\* was decoded from (0: no line)
Tagged(n, chunks) == [i \in 1..Len(chunks) |-> [frame |-> n, text |-> chunks[i]]]

\* (mutant) the newest chunks are delivered ahead of the earlier ones
YieldAhead(sofar, chunks) == chunks \o sofar

\* a generator hands its chunks to the consumer in the order it yields them
Yield(sofar, chunks) == sofar \o chunks

\* the `except asyncio.TimeoutError` / `except Exception` handlers of the stream
StreamErrorText(exc, rid) ==
    WithRequestId(IF exc = "timeout" THEN <<"Request timed out">>
                  ELSE <<"Stream error: ", exc>>, rid)

\* the `response.status != 200` branch of the stream
StreamStatusText(o) ==
    WithRequestId(<<"Error: HTTP ", o.status, ": ", "upstream body">>, o.rid)

\* (mutant) a rate-limited stream request is issued again
AfterOpenRetry429(o) ==
    IF o.kind = "response" /\ o.status = "200" THEN "stream"
    ELSE IF o.kind = "response" /\ o.status = "429" THEN "gen"
    ELSE "done"

\* where the generator stands after the POST: reading lines after a 200,
\* finished (`yield error_msg; return`) after anything else
AfterOpen(o) == IF o.kind = "response" /\ o.status = "200" THEN "stream" ELSE "done"

\* what the single POST of the stream can end in
StreamOutcomes ==
    {Outcome("client_error", "", None, "absent", "", <<>>),
     Outcome("timeout", "", None, "absent", "", <<>>)}
    \cup {Outcome("response", s, r, "absent", "", <<>>) :
            s \in OtherStatuses \cup {"429", "200"}, r \in RequestIdHeaders}


\* =========================================== Pipe.pipe, request translation
SUPPORTED_IMAGE_TYPES == {"image/jpeg", "image/png", "image/gif", "image/webp"}
SUPPORTED_PDF_MODELS ==
    {"claude-3-5-sonnet-20241022", "claude-3-5-sonnet-20240620", "claude-3-7-sonnet-latest"}
MAX_IMAGE_SIZE == 5 * 1024 * 1024
MAX_PDF_SIZE == 32 * 1024 * 1024
MODEL_MAX_TOKENS ==
    ("claude-3-opus-20240229" :> 4096) @@ ("claude-3-sonnet-20240229" :> 4096)
    @@ ("claude-3-haiku-20240307" :> 4096) @@ ("claude-3-5-sonnet-20240620" :> 8192)
    @@ ("claude-3-5-sonnet-20241022" :> 8192) @@ ("claude-3-5-haiku-20241022" :> 8192)
    @@ ("claude-3-opus-latest" :> 4096) @@ ("claude-3-5-sonnet-latest" :> 8192)
    @@ ("claude-3-5-haiku-latest" :> 8192) @@ ("claude-3-7-sonnet-latest" :> 16384)
    @@ ("claude-opus-4-0" :> 32000) @@ ("claude-sonnet-4-0" :> 64000)

\* the longest base64 string whose len * 3 / 4 does not exceed the ceiling
ImageLenAtCeiling == (4 * MAX_IMAGE_SIZE) \div 3
PdfLenAtCeiling == (4 * MAX_PDF_SIZE) \div 3

\* one item of a message's content list
\*   inline: the url is a data: URL ("data:image..." / "data:application/pdf...")
\*   media_type, size: the media type of the data: URL and len(base64_data)
\*   model: item.get("model", "") of a pdf_url item
\*   cache_control: whether the item has a (truthy) "cache_control" key
Item(t, inline, mt, n, m) ==
    [type |-> t, inline |-> inline, media_type |-> mt, size |-> n, model |-> m,
     cache_control |-> FALSE]
CacheControlled(item) == [item EXCEPT !.cache_control = TRUE]

Items ==
    {Item("text", FALSE, "", 0, ""), Item("image_url", FALSE, "", 0, "")}
    \cup {CacheControlled(Item("text", FALSE, "", 0, "")), Item("tool_results", FALSE, "", 0, "")}
    \cup {Item("image_url", TRUE, "image/png", n, "") :
            n \in {ImageLenAtCeiling, ImageLenAtCeiling + 1}}
    \cup {Item("image_url", TRUE, "image/bmp", 4, "")}
    \cup {Item("pdf_url", TRUE, "application/pdf", n, "claude-3-7-sonnet-latest") :
            n \in {PdfLenAtCeiling, PdfLenAtCeiling + 1}}
    \cup {Item("pdf_url", TRUE, "application/pdf", 4, "")}

\* a body has a "messages" key or not (has_messages); its messages are one
\* user message, of which `messages` is the content list. temperature, top_k,
\* top_p and tool_choice are None when the body has no such key; has_tools
\* says whether it has a "tools" key
RequestModels == Models \cup {"anthropic/claude-3-5-sonnet-latest", "gpt-4"}
RequestedTokens == {<<>>, <<1024>>, <<100000>>}

\* the bodies of the calls that carry plain text and request no token
\* budget, for the values of "stream" in streams
PlainBodies(streams) ==
    [model : Models, stream : streams, max_tokens : {<<>>}, has_messages : {TRUE},
     messages : {<<>>}, temperature : {None}, top_k : {None}, top_p : {None},
     has_tools : {FALSE}, tool_choice : {None}]

\* the bodies that vary the sampling parameters and the tools
ParamBodies ==
    [model : Models, stream : BOOLEAN, max_tokens : {<<>>}, has_messages : {TRUE},
     messages : {<<>>}, temperature : {None, "0.7"}, top_k : {None, "40", "40.9"},
     top_p : {None, "0.9"}, has_tools : BOOLEAN, tool_choice : {None, "auto"}]

RequestBodies ==
    [model : RequestModels, stream : BOOLEAN, max_tokens : RequestedTokens,
     has_messages : {TRUE}, messages : SeqsUpTo(Items, MaxItems),
     temperature : {None}, top_k : {None}, top_p : {None},
     has_tools : {FALSE}, tool_choice : {None}]
    \cup [model : RequestModels, stream : BOOLEAN, max_tokens : RequestedTokens,
          has_messages : {FALSE}, messages : {<<>>},
          temperature : {None}, top_k : {None}, top_p : {None},
          has_tools : {FALSE}, tool_choice : {None}]
    \cup ParamBodies

\* body["model"].split("/")[-1]
ModelName(m) ==
    IF m = "anthropic/claude-3-5-sonnet-latest" THEN "claude-3-5-sonnet-latest" ELSE m

\* f"{x:.2f}" of the quotient num / den
Fmt2(num, den) ==
    LET h == 100 * (num \div den) + (200 * (num % den) + den) \div (2 * den)
    IN  <<ToString(h \div 100), ".", ToString((h % 100) \div 10), ToString(h % 10)>>

\* (mutant) the size of an inline image is not looked at
process_imageAnySize(item) ==
    IF item.inline /\ item.media_type \notin SUPPORTED_IMAGE_TYPES
    THEN <<"Unsupported media type: ", item.media_type>>
    ELSE <<>>

\* process_image: the text of the ValueError it raises, <<>> when it returns.
\* len(base64_data) * 3 / 4 > MAX is 3 * len > 4 * MAX
process_image(item) ==
    IF item.inline
    THEN IF item.media_type \notin SUPPORTED_IMAGE_TYPES
         THEN <<"Unsupported media type: ", item.media_type>>
         ELSE IF 3 * item.size > 4 * MAX_IMAGE_SIZE
         THEN <<"Image size exceeds ", "5.0", "MB limit: ">>
              \o Fmt2(3 * item.size, 4 * 1024 * 1024) \o <<"MB">>
         ELSE <<>>
    ELSE <<>>

\* process_pdf, the same way
process_pdf(item) ==
    IF item.inline /\ 3 * item.size > 4 * MAX_PDF_SIZE
    THEN <<"PDF size exceeds ", "32.0", "MB limit: ">>
         \o Fmt2(3 * item.size, 4 * 1024 * 1024) \o <<"MB">>
    ELSE <<>>

\* one iteration of the loop of process_content
ProcessItem(item) ==
    IF item.type = "image_url" THEN process_image(item)
    ELSE IF item.type = "pdf_url"
    THEN IF item.model \notin SUPPORTED_PDF_MODELS
         THEN <<"PDF support is only available for models: ", "SUPPORTED_PDF_MODELS">>
         ELSE process_pdf(item)
    ELSE <<>>

\* _process_messages: the ValueError of the first item that raises one
ProcessMessages(items) ==
    LET bad == {i \in 1..Len(items) : ProcessItem(items[i]) # <<>>}
    IN  IF bad = {} THEN <<>>
        ELSE ProcessItem(items[CHOOSE i \in bad : \A j \in bad : i <= j])

\* what the loop of _process_messages does to the items of the caller's
\* user message: process_content passes a tool_results item on as the object
\* it is, and the loop sets its "cache_control"
ProcessMessagesInPlace(items) ==
    [i \in 1..Len(items) |->
        IF items[i].type = "tool_results" THEN CacheControlled(items[i]) ELSE items[i]]

Min(a, b) == IF a <= b THEN a ELSE b

\* max_tokens_limit
MaxTokensLimit(model_name) ==
    IF model_name \in DOMAIN MODEL_MAX_TOKENS THEN MODEL_MAX_TOKENS[model_name] ELSE 4096
\* (mutant) the requested budget is passed on as it is
MaxTokensAsRequested(b, v) ==
    LET max_tokens_limit == MaxTokensLimit(ModelName(b.model))
    IN  IF v.MAX_OUTPUT_TOKENS \/ b.max_tokens = <<>> THEN max_tokens_limit
        ELSE b.max_tokens[1]

MaxTokens(b, v) ==
    LET max_tokens_limit == MaxTokensLimit(ModelName(b.model))
    IN  IF v.MAX_OUTPUT_TOKENS THEN max_tokens_limit
        ELSE Min(IF b.max_tokens = <<>> THEN max_tokens_limit ELSE b.max_tokens[1],
                 max_tokens_limit)

\* float(x) and int(x) of a parameter of the body
ToFloat(x) == x
ToInt(x) == IF x = "40.9" THEN "40" ELSE x

\* the other keys of the payload dict: the object literal of `payload = {...}`
\* and the "thinking" key
PayloadLiteral(b, v) ==
    [k \in {"messages", "temperature", "top_k", "top_p", "metadata"}
            \cup (IF v.ENABLE_THINKING /\ ModelName(b.model) = "claude-3-7-sonnet-latest"
                  THEN {"thinking"} ELSE {}) |->
        CASE k = "temperature" -> IF b.temperature # None THEN ToFloat(b.temperature) ELSE None
          [] k = "top_k" -> IF b.top_k # None THEN ToInt(b.top_k) ELSE None
          [] k = "top_p" -> IF b.top_p # None THEN ToFloat(b.top_p) ELSE None
          [] OTHER -> k]

\* {k: v for k, v in payload.items() if v is not None}
WithoutNone(d) == [k \in {key \in DOMAIN d : d[key] # None} |-> d[k]]

\* "Add tools if enabled": the keys set after the None values were dropped
WithTools(d, b, v) ==
    IF b.has_tools /\ v.ENABLE_TOOL_CHOICE
    THEN [k \in DOMAIN d \cup {"tools", "tool_choice"} |->
            IF k = "tools" THEN "tools" ELSE IF k = "tool_choice" THEN b.tool_choice ELSE d[k]]
    ELSE d

\* the payload: model, max_tokens and stream, and the function params from
\* every other key it has to the value of that key
NoPayload == [model |-> "", max_tokens |-> 0, stream |-> FALSE, params |-> <<>>]
BuildPayload(b, v) ==
    [model |-> ModelName(b.model), max_tokens |-> MaxTokens(b, v), stream |-> b.stream,
     params |-> WithTools(WithoutNone(PayloadLiteral(b, v)), b, v)]

PDF_BETA_HEADER == "pdfs-2024-09-25"
BETA_HEADER == "prompt-caching-2024-07-31"
OUTPUT_128K_BETA == "output-128k-2025-02-19"

\* beta_headers: the tests read the body after _process_messages has run
BetaHeaders(b, v) ==
    LET content == ProcessMessagesInPlace(b.messages)
    IN  (IF \E i \in 1..Len(content) : content[i].type = "pdf_url"
         THEN <<PDF_BETA_HEADER>> ELSE <<>>)
        \o (IF \E i \in 1..Len(content) : content[i].cache_control
            THEN <<BETA_HEADER>> ELSE <<>>)
        \o (IF ModelName(b.model) = "claude-3-7-sonnet-latest" /\ v.MAX_OUTPUT_TOKENS
            THEN <<OUTPUT_128K_BETA>> ELSE <<>>)

\* what the statements of pipe's outer `try` raise before the vendor call:
\* the str() of the exception, <<>> when none is raised
TranslationError(b) ==
    IF ~b.has_messages THEN <<"'messages'">> ELSE ProcessMessages(b.messages)

\* the outer `except Exception` of pipe
PipeError(exc, rid) == WithRequestId(<<"Error: ">> \o exc, rid)


\* ====================================================== the Anthropic pipe
ApiKeys == {"", "Your API Key Here"}

\* an instance between two calls; request_id is None after __init__ and the
\* x-request-id header of the last response received after that
AIdle(ids) ==
    /\ valves \in [ANTHROPIC_API_KEY : ApiKeys, ENABLE_THINKING : BOOLEAN,
                   MAX_OUTPUT_TOKENS : BOOLEAN, ENABLE_TOOL_CHOICE : BOOLEAN]
    /\ request_id \in ids
    /\ pc = "idle"
    /\ body = [model |-> "claude-3-opus-latest", stream |-> FALSE, max_tokens |-> <<>>,
               has_messages |-> TRUE, messages |-> <<>>, temperature |-> None,
               top_k |-> None, top_p |-> None, has_tools |-> FALSE, tool_choice |-> None]
    /\ inbound = <<>>
    /\ payload = NoPayload
    /\ headers = <<>>
    /\ emitter = FALSE
    /\ retry_count = 0
    /\ requests = 0
    /\ slept = <<>>
    /\ attempts = <<>>
    /\ result = NoResult
    /\ statuses = <<>>
    /\ lines = <<>>
    /\ out = <<>>
    /\ is_thinking = FALSE
    /\ thinking_content = <<>>

AInit == AIdle({None})

\* pipe(body, __event_emitter__) up to its first network call, for the
\* bodies in bodies
Pipe(bodies) ==
    /\ pc \in {"idle", "done"}
    /\ \E b \in bodies, em \in BOOLEAN :
        LET processing == Status(<<"Processing request...">>, FALSE)
            exc == TranslationError(b)
            error_msg == PipeError(exc, request_id)
        IN  /\ body' = b
            /\ inbound' = IF Truthy(valves.ANTHROPIC_API_KEY) /\ exc = <<>>
                           THEN ProcessMessagesInPlace(b.messages) ELSE b.messages
            /\ emitter' = em
            /\ IF ~Truthy(valves.ANTHROPIC_API_KEY)
               THEN /\ statuses' = Emit(<<>>,
                                        <<Status(<<"Error: ANTHROPIC_API_KEY is required">>,
                                                 TRUE)>>, em)
                    /\ result' = Dict(<<"Error: ANTHROPIC_API_KEY is required">>)
                    /\ payload' = NoPayload
                    /\ headers' = <<>>
                    /\ pc' = "done"
               ELSE IF exc # <<>>
               THEN /\ statuses' = Emit(<<>>,
                                        (IF ~b.has_messages THEN <<>>
                                         ELSE <<processing>>)
                                        \o <<Status(error_msg, TRUE)>>, em)
                    /\ result' = Dict(error_msg)
                    /\ payload' = NoPayload
                    /\ headers' = <<>>
                    /\ pc' = "done"
               ELSE /\ statuses' = Emit(<<>>, <<processing>>, em)
                    /\ result' = IF b.stream THEN Generator ELSE NoResult
                    /\ payload' = BuildPayload(b, valves)
                    /\ headers' = BetaHeaders(b, valves)
                    /\ pc' = IF b.stream THEN "gen" ELSE "send"
    /\ retry_count' = 0
    /\ requests' = 0
    /\ slept' = <<>>
    /\ attempts' = <<>>
    /\ lines' = <<>>
    /\ out' = <<>>
    /\ is_thinking' = FALSE
    /\ thinking_content' = <<>>
    /\ UNCHANGED <<valves, request_id, pvars>>

\* a non-streaming call
Call == Pipe(PlainBodies({FALSE}))

\* a streaming call: pipe returns the generator of _stream_with_ui, which
\* does not read the model; the calls name the model that can think
CallStream ==
    Pipe({b \in PlainBodies({TRUE}) : ModelName(b.model) = "claude-3-7-sonnet-latest"})

\* a call with any of the request bodies
CallAny == Pipe(RequestBodies)

\* what the POST of a call can end in, for the runs that look at the
\* request only
RequestOutcomes ==
    {Outcome("response", "200", r, "absent", "json", <<[type |-> "text", val |-> "T1"]>>) :
        r \in RequestIdHeaders}
    \cup {Outcome("response", "400", "req_A", "absent", "plain", <<>>)}

\* one iteration of the retry loop of _send_request and, when the loop
\* ends, the rest of pipe, for the upstream outcomes in outcomes
AttemptOf(outcomes) ==
    /\ pc = "send"
    /\ \E o \in outcomes :
        LET st == SendRequestStep(retry_count, o)
            rid == IF o.kind = "response" THEN o.rid ELSE request_id
            fin == PipeFinish(IF st.ctl = "continue" THEN MaxRetriesExceeded ELSE st,
                              rid, payload.model, valves)
        IN  /\ requests' = requests + 1
            /\ attempts' = Append(attempts, o)
            /\ request_id' = rid
            /\ slept' = slept \o st.sleep
            /\ retry_count' = IF st.ctl = "continue" THEN st.retry_count ELSE retry_count
            /\ IF LoopAgain(st)
               THEN UNCHANGED <<pc, result, statuses>>
               ELSE /\ pc' = "done"
                    /\ result' = fin.value
                    /\ statuses' = Emit(statuses, fin.status, emitter)
    /\ UNCHANGED <<valves, body, inbound, payload, headers, emitter, lines, out, is_thinking, thinking_content, pvars>>

Attempt == AttemptOf(Outcomes)

\* the same with the outcomes narrowed to RequestOutcomes
AttemptRequest == AttemptOf(RequestOutcomes)

\* first iteration of the generator: the POST of _stream_with_ui
StreamOpen ==
    /\ pc = "gen"
    /\ \E o \in StreamOutcomes :
        LET rid == IF o.kind = "response" THEN o.rid ELSE request_id
            failed == AfterOpen(o) # "stream"
            error_msg == IF o.kind = "response" THEN StreamStatusText(o)
                         ELSE StreamErrorText(IF o.kind = "timeout" THEN "timeout"
                                              ELSE "ClientError", rid)
        IN  /\ requests' = requests + 1
            /\ attempts' = Append(attempts, o)
            /\ request_id' = rid
            /\ IF failed
               THEN /\ statuses' = Emit(statuses, <<Status(error_msg, TRUE)>>, emitter)
                    /\ out' = Yield(out, Tagged(0, <<error_msg>>))
               ELSE UNCHANGED <<statuses, out>>
            /\ pc' = AfterOpen(o)
    /\ is_thinking' = FALSE
    /\ thinking_content' = <<>>
    /\ UNCHANGED <<valves, body, inbound, payload, headers, emitter, retry_count, slept, result, lines, pvars>>

\* the stream delivers one more line, one of lineset, and the decoder
\* handles it
StreamLineOf(lineset) ==
    /\ pc = "stream"
    /\ Len(lines) < MaxFrames
    /\ \E line \in lineset :
        LET d == DecodeLine(is_thinking, thinking_content, line, valves.ENABLE_THINKING)
            n == Len(lines) + 1
            error_msg == StreamErrorText(d.exc, request_id)
        IN  /\ lines' = Append(lines, line)
            /\ is_thinking' = d.is_thinking
            /\ thinking_content' = d.thinking_content
            /\ IF d.ctl = "raise"
               THEN /\ out' = Yield(out, Tagged(n, <<error_msg>>))
                    /\ statuses' = Emit(statuses, <<Status(error_msg, TRUE)>>, emitter)
               ELSE /\ out' = Yield(out, Tagged(n, d.chunks))
                    /\ statuses' = Emit(statuses, d.status, emitter)
            /\ pc' = IF d.ctl = "next" THEN "stream" ELSE "done"
    /\ UNCHANGED <<valves, request_id, body, inbound, payload, headers, emitter, retry_count, requests, slept,
                   attempts, result, pvars>>

StreamLine == StreamLineOf(AnthropicLines)

\* the same for a line that carries any of the JSON objects of Frames
StreamFrame == StreamLineOf(Frames)

\* response.content is exhausted
StreamEnd ==
    /\ pc = "stream"
    /\ pc' = "done"
    /\ UNCHANGED <<valves, request_id, body, inbound, payload, headers, emitter, retry_count, requests, slept,
                   attempts, result, statuses, lines, out, is_thinking,
                   thinking_content, pvars>>

\* reading the next line fails: the total timeout expires or the
\* connection breaks
StreamAbort ==
    /\ pc = "stream"
    /\ LET error_msg == StreamErrorText("timeout", request_id)
       IN  /\ out' = Yield(out, Tagged(0, <<error_msg>>))
           /\ statuses' = Emit(statuses, <<Status(error_msg, TRUE)>>, emitter)
    /\ pc' = "done"
    /\ UNCHANGED <<valves, request_id, body, inbound, payload, headers, emitter, retry_count, requests, slept,
                   attempts, result, lines, is_thinking, thinking_content, pvars>>

\* ==================================================== the Perplexity pipe
VALID_MODELS == {"sonar-reasoning-pro", "sonar-reasoning", "sonar-pro", "sonar",
                 "sonar-deep-research"}
\* body["model"]; None: the body has no "model" key
PModels == {"sonar", "Perplexity/sonar-pro", "gpt-4", None}
Urls == {"http://a", "http://b"}
CitationLists == {<<"http://a">>, <<"http://a", "http://b">>}
\* a text is written character by character where it has brackets or
\* digits; a run of other characters is one piece
Contents == {<<>>, <<"See ", "[", "1", "]", " and ", "[", "2", "]">>}

\* the lines response.aiter_lines() can deliver
\*   k = "other": no "data: " prefix      k = "empty": "data: " and nothing else
\*   k = "bad":   json.loads rejects the payload ("[DONE]" included)
\*   k = "no_choices": a JSON object whose "choices" is an empty list
\*   k = "json":  a JSON object with one choice; has_citations says whether it
\*                has a "citations" field, reasoning whether its delta has a
\*                non-empty reasoning_content, content is delta.content
PLine(k, hc, c, r, t) ==
    [k |-> k, has_citations |-> hc, citations |-> c, reasoning |-> r, content |-> t]

PerplexityLines ==
    {PLine(k, FALSE, <<>>, FALSE, <<>>) : k \in {"other", "empty", "bad", "no_choices"}}
    \cup {PLine("json", FALSE, <<>>, r, t) : r \in BOOLEAN, t \in Contents}
    \cup {PLine("json", TRUE, c, r, t) : c \in CitationLists, r \in BOOLEAN, t \in Contents}

\* a message is a role and a string content, written as its pieces: words,
\* blanks and URLs
ImageUrls == {"http://x/cat.png"}
MessageContents == {<<"hi">>, <<"look", " ", "http://x/cat.png">>}
Messages == [role : {"user", "assistant"}, content : MessageContents]

\* the bodies of the calls that carry no messages and name a model without
\* the prefix
PlainPBodies == [model : PModels \ {"Perplexity/sonar-pro"}, messages : {<<>>}]
PRequestBodies == [model : PModels, messages : SeqsUpTo(Messages, MaxMessages)]

\* str.strip()
RECURSIVE Strip(_)
Strip(text) ==
    IF text # <<>> /\ Head(text) = " " THEN Strip(Tail(text))
    ELSE IF text # <<>> /\ text[Len(text)] = " " THEN Strip(SubSeq(text, 1, Len(text) - 1))
    ELSE text

\* _inject_image_if_any: the messages list as it leaves it
InjectImageIfAny(messages) ==
    IF messages = <<>> \/ messages[Len(messages)].role # "user" THEN messages
    ELSE [messages EXCEPT ![Len(messages)].content =
             Strip(SelectSeq(@, LAMBDA piece : piece \notin ImageUrls))]

\* _process_messages: the messages list as it leaves it
RECURSIVE PProcessMessages(_)
PProcessMessages(messages) ==
    IF Len(messages) <= 1 THEN messages
    ELSE IF messages[1].role = messages[2].role
    THEN <<messages[1],
           [role |-> IF messages[1].role = "user" THEN "assistant" ELSE "user",
            content |-> <<"[Unfinished thinking]">>]>>
         \o PProcessMessages(Tail(messages))
    ELSE <<messages[1]>> \o PProcessMessages(Tail(messages))

\* the lists _process_messages is given by itself: messages of every role,
\* one of which has the text of a placeholder
Roles == {"user", "assistant", "system"}
Histories ==
    SeqsUpTo([role : Roles, content : {<<"hi">>, <<"[Unfinished thinking]">>}], MaxHistory)

\* (mutant) the placeholder is always an assistant message
AlternateRoleAssistant(role) == "assistant"

\* alternate_role
AlternateRole(role) == IF role = "user" THEN "assistant" ELSE "user"

\* list.insert(k, x)
Insert(list, k, x) == SubSeq(list, 1, k) \o <<x>> \o SubSeq(list, k + 1, Len(list))

\* one iteration of `while i < len(messages) - 1`
ProcessMessagesStep ==
    /\ m_i < Len(m_messages) - 1
    /\ IF m_messages[m_i + 1].role = m_messages[m_i + 2].role
       THEN /\ m_messages' =
                  Insert(m_messages, m_i + 1,
                         [role |-> AlternateRole(m_messages[m_i + 1].role),
                          content |-> <<"[Unfinished thinking]">>])
            /\ m_i' = m_i + 2
       ELSE /\ m_messages' = m_messages
            /\ m_i' = m_i + 1
    /\ UNCHANGED <<m_input, avars, p_valves, p_body, p_inbound, p_pc, p_emitter,
                   current_citations, thinking_state, first_chunk, p_requests, p_statuses,
                   p_lines, p_out, emitter_of, qvars, fvars, gvars, xvars>>

\* strip NAME_PREFIX from body["model"]
ModelId(m) == IF m = "Perplexity/sonar-pro" THEN "sonar-pro" ELSE m

\* the regular expression \[(\d+)\]
Digits == {"0", "1", "2", "3", "4", "5", "6", "7", "8", "9"}
DigitValue(d) ==
    CASE d = "0" -> 0 [] d = "1" -> 1 [] d = "2" -> 2 [] d = "3" -> 3 [] d = "4" -> 4
      [] d = "5" -> 5 [] d = "6" -> 6 [] d = "7" -> 7 [] d = "8" -> 8 [] d = "9" -> 9

\* int(idx_str)
RECURSIVE IntOfDigits(_)
IntOfDigits(ds) ==
    IF ds = <<>> THEN 0
    ELSE 10 * IntOfDigits(SubSeq(ds, 1, Len(ds) - 1)) + DigitValue(ds[Len(ds)])

\* \d+ is greedy: the digits from position i on, as far as they go
RECURSIVE DigitRun(_, _)
DigitRun(text, i) ==
    IF i <= Len(text) /\ text[i] \in Digits THEN 1 + DigitRun(text, i + 1) ELSE 0

\* the length of the match of the pattern at position i, 0 when there is none
MatchAt(text, i) ==
    LET k == DigitRun(text, i + 1)
    IN  IF text[i] = "[" /\ k >= 1 /\ i + k + 1 <= Len(text) /\ text[i + k + 1] = "]"
        THEN k + 2 ELSE 0

\* (mutant) the marker number is taken as an index from 0
ReplaceOneFromZero(idx_str, citations) ==
    LET idx == IntOfDigits(idx_str)
    IN  IF 0 <= idx /\ idx < Len(citations)
        THEN <<"[", "[">> \o idx_str \o <<"]", "]", "(", citations[idx + 1], ")">>
        ELSE <<"[", "[">> \o idx_str \o <<"]", "]">>

\* _replace_one, given m.group(1)
ReplaceOne(idx_str, citations) ==
    LET idx == IntOfDigits(idx_str)
    IN  IF 1 <= idx /\ idx <= Len(citations)
        THEN <<"[", "[">> \o idx_str \o <<"]", "]", "(", citations[idx], ")">>
        ELSE <<"[", "[">> \o idx_str \o <<"]", "]">>

\* re.sub from position i on: the leftmost match is replaced and the scan
\* goes on behind it; a character that starts no match is copied
RECURSIVE Sub(_, _, _)
Sub(text, i, citations) ==
    IF i > Len(text) THEN <<>>
    ELSE LET m == MatchAt(text, i)
         IN  IF m > 0
             THEN ReplaceOne(SubSeq(text, i + 1, i + m - 2), citations)
                  \o Sub(text, i + m, citations)
             ELSE <<text[i]>> \o Sub(text, i + 1, citations)

\* _transform_references
TransformReferences(text, citations) == Sub(text, 1, citations)

\* _update_thinking_state
UpdateThinkingState(reasoning, thinking) ==
    IF thinking = -1 /\ reasoning
    THEN [thinking |-> 0, state_output |-> <<"\n\n">>]
    ELSE [thinking |-> thinking, state_output |-> <<>>]

PDecoded(cit, th, chunks, ctl, first) ==
    [citations |-> cit, thinking |-> th, chunks |-> chunks, ctl |-> ctl, first |-> first]

\* (mutant) the citations of a frame are stored after its delta is rewritten
PDecodeLineCitationsLate(cit, th, line) ==
    IF line.k \in {"other", "empty", "bad"}
    THEN PDecoded(cit, th, <<>>, "next", FALSE)
    ELSE LET cit2 == IF line.has_citations THEN line.citations ELSE cit
         IN  IF line.k = "no_choices"
             THEN PDecoded(cit2, th, <<>>, "raise", FALSE)
             ELSE LET u == UpdateThinkingState(line.reasoning, th)
                      marker == IF u.state_output # <<>> THEN <<u.state_output>> ELSE <<>>
                      text == IF line.content # <<>>
                              THEN <<TransformReferences(line.content, cit)>> ELSE <<>>
                  IN  PDecoded(cit2, u.thinking, marker \o text, "next", line.content # <<>>)

\* the body of `async for line in response.aiter_lines()`
PDecodeLine(cit, th, line) ==
    IF line.k \in {"other", "empty", "bad"}
    THEN PDecoded(cit, th, <<>>, "next", FALSE)
    ELSE LET cit2 == IF line.has_citations THEN line.citations ELSE cit
         IN  IF line.k = "no_choices"
             THEN PDecoded(cit2, th, <<>>, "raise", FALSE)
             ELSE LET u == UpdateThinkingState(line.reasoning, th)
                      marker == IF u.state_output # <<>> THEN <<u.state_output>> ELSE <<>>
                      text == IF line.content # <<>>
                              THEN <<TransformReferences(line.content, cit2)>> ELSE <<>>
                  IN  PDecoded(cit2, u.thinking, marker \o text, "next", line.content # <<>>)

\* extract_domain
ExtractDomain(url) == CASE url = "http://a" -> "a" [] url = "http://b" -> "b" [] OTHER -> ""

\* what one GET of fetch_page_title can end in
\*   "title":    200 and a <title> element with text
\*   "no_title": 200 and no <title> element, or one that is blank
\*   "not_200":  any other status
\*   "timeout":  the GET raises (timeout, connection error)
FetchOutcomes == {"title", "no_title", "not_200", "timeout"}
TitleOf(url) ==
    CASE url = "http://a" -> "Title A" [] url = "http://b" -> "Title B" [] OTHER -> "Title"

\* fetch_page_title
FetchPageTitle(url, o) == IF o = "title" THEN TitleOf(url) ELSE ""

\* (mutant) a citation whose title could not be fetched is left out
FormatReferencesSkipFailed(citations, titles) ==
    IF citations = <<>> THEN <<>>
    ELSE
    <<"\n\n<details>\n<summary>Reference Websites</summary>">>
    \o Flatten([i \in 1..Len(citations) |->
                  IF titles[i] # ""
                  THEN <<"\n", ToString(i), ": [", titles[i], "](", citations[i], ")">>
                  ELSE <<>>])
    \o <<"\n", "</details>">>

\* _format_references, given the titles the fetches returned ("": failed)
FormatReferences(citations, titles) ==
    IF citations = <<>> THEN <<>>
    ELSE
    <<"\n\n<details>\n<summary>Reference Websites</summary>">>
    \o Flatten([i \in 1..Len(citations) |->
                  IF titles[i] # ""
                  THEN <<"\n", ToString(i), ": [", titles[i], "](", citations[i], ")">>
                  ELSE <<"\n", ToString(i), ": [News source: ",
                         IF ExtractDomain(citations[i]) = "" THEN "unknown"
                         ELSE ExtractDomain(citations[i]),
                         "](", citations[i], ")">>])
    \o <<"\n", "</details>">>

\* _format_error / _format_exception: json.dumps({"error": ...})
FormatError(status) == <<"{\"error\": \"HTTP ", status, ": ", "upstream body", "\"}">>
FormatException(exc) == <<"{\"error\": \"", exc, "\"}">>

\* an instance after __init__
PIdle ==
    /\ p_valves \in [PERPLEXITY_API_KEY : {"", "pplx-key"}]
    /\ p_body = [model |-> "sonar", messages |-> <<>>]
    /\ p_inbound = <<>>
    /\ p_pc = "idle"
    /\ p_emitter = FALSE
    /\ emitter_of = 1
    /\ current_citations = <<>>
    /\ thinking_state = -1
    /\ first_chunk = TRUE
    /\ p_requests = 0
    /\ p_statuses = <<>>
    /\ p_lines = <<>>
    /\ p_out = <<>>
    /\ q_pc = "idle"
    /\ q_first_chunk = TRUE
    /\ q_requests = 0
    /\ q_statuses = <<>>
    /\ q_lines = <<>>
    /\ q_out = <<>>

\* _transform_references has not been called by itself
NotCalled == <<"(not called)">>
TIdle ==
    /\ tr_text = <<>>
    /\ tr_citations = <<>>
    /\ tr_result = NotCalled

\* _format_references has not been called by itself
GIdle ==
    /\ g_citations = <<>>
    /\ g_outcomes = <<>>
    /\ g_order = <<>>
    /\ g_result = NotCalled

\* ================================== the proxy (src/proxy.py) chat_completions
\* JSON values, as far as the handler looks into them. A string is the
\* sequence of its characters.
JStr(v) == [t |-> "str", v |-> v]
JNumber == [t |-> "number", v |-> <<>>]
JNull == [t |-> "null", v |-> <<>>]
ContentValues == {JStr(<<"h", "i">>), JStr(<<" ", "h", "i", " ">>), JStr(<<" ">>), JStr(<<>>),
                  JNumber, JNull}

\* a message of the request: a JSON object with or without "content", or a
\* value that is no object (null)
ChatMessages ==
    {[obj |-> TRUE, has_content |-> TRUE, content |-> c] : c \in ContentValues}
    \cup {[obj |-> TRUE, has_content |-> FALSE, content |-> JNull],
          [obj |-> FALSE, has_content |-> FALSE, content |-> JNull]}

\* what req.json() gives: a JSONDecodeError (t = "bad_json"), a number, a
\* list, or an object whose "messages" is absent, null, a number or a list
ProxyBody(t, mt, ms) == [t |-> t, mt |-> mt, messages |-> ms]
NoBody == ProxyBody("none", "absent", <<>>)
ProxyBodies ==
    {ProxyBody(t, "absent", <<>>) : t \in {"bad_json", "number", "list"}}
    \cup {ProxyBody("object", mt, <<>>) : mt \in {"absent", "null", "number"}}
    \cup {ProxyBody("object", "list", ms) : ms \in SeqsUpTo(ChatMessages, MaxTurns)}

\* an event of the backend's answer: the shape of
\* last_event["content"]["parts"][-1]["text"] and the "id" key
EventShapes == {"ok", "not_object", "no_content", "content_null", "parts_empty", "no_text"}
Events == [shape : EventShapes, id : {None, "e1"}]

\* what `client.post`, `raise_for_status` and `resp.json()` end in
Backend(kind, status, form, t, items) ==
    [kind |-> kind, status |-> status, payload |-> form, t |-> t, items |-> items]
NoBackend == Backend("none", "", "", "null", <<>>)
BackendOutcomes ==
    {Backend(k, "", "", "null", <<>>) : k \in {"timeout", "connect_error", "read_error"}}
    \cup {Backend("response", st, "", "null", <<>>) : st \in {"404", "500"}}
    \cup {Backend("response", "200", "not_json", "null", <<>>)}
    \cup {Backend("response", "200", "json", t, <<>>) : t \in {"null", "empty_object", "object"}}
    \cup {Backend("response", "200", "json", "list", es) : es \in SeqsUpTo(Events, MaxEvents)}

\* raise HTTPException(status_code, detail)
HTTPException(status, detail) ==
    [ctl |-> "http", status |-> status, detail |-> detail, id |-> "", content |-> ""]
\* an exception that is no HTTPException
OtherException(exc) ==
    [ctl |-> "exc", status |-> 0, detail |-> exc, id |-> "", content |-> ""]
\* the statements go on to the call of the backend
Proceed == [ctl |-> "proceed", status |-> 0, detail |-> "", id |-> "", content |-> ""]
\* return {"id": event_id, ...}: FastAPI answers 200
Completion(id, text) ==
    [ctl |-> "return", status |-> 200, detail |-> "", id |-> id, content |-> text]
NoResponse == [ctl |-> "none", status |-> 0, detail |-> "", id |-> "", content |-> ""]

\* "Parse and validate request body" and "Extract user message safely"
ValidateBody(b) ==
    IF b.t = "bad_json" THEN HTTPException(400, "Invalid JSON format")
    ELSE IF b.t = "number" THEN OtherException("TypeError")
    ELSE IF b.t = "list" \/ b.mt \in {"absent", "null"} \/ (b.mt = "list" /\ b.messages = <<>>)
    THEN HTTPException(400, "Missing or empty 'messages' field")
    ELSE IF b.mt = "number" THEN OtherException("TypeError")
    ELSE LET last_message == b.messages[Len(b.messages)]
         IN  IF ~last_message.obj THEN OtherException("TypeError")
             ELSE IF ~last_message.has_content
             THEN HTTPException(400, "Missing 'content' in last message")
             ELSE IF last_message.content.t # "str" \/ Strip(last_message.content.v) = <<>>
             THEN HTTPException(400, "Empty or invalid message content")
             ELSE Proceed

\* the exception of last_event["content"]["parts"][-1]["text"], "" if none
ExtractError(last_event) ==
    CASE last_event.shape = "ok" -> ""
      [] last_event.shape \in {"not_object", "content_null"} -> "TypeError"
      [] last_event.shape \in {"no_content", "no_text"} -> "KeyError"
      [] last_event.shape = "parts_empty" -> "IndexError"

\* the call of the backend with its handlers, and "Validate and extract
\* response"
HandleBackend(o) ==
    IF o.kind = "timeout" THEN HTTPException(504, "Backend request timed out")
    ELSE IF o.kind = "connect_error" THEN HTTPException(503, "Backend service unavailable")
    ELSE IF o.kind # "response" THEN OtherException("ReadError")
    ELSE IF o.status # "200" THEN HTTPException(502, "Backend error")
    ELSE IF o.payload = "not_json" THEN HTTPException(502, "Invalid response from backend")
    ELSE IF o.t # "list" \/ o.items = <<>>
    THEN HTTPException(502, "Invalid backend response format")
    ELSE LET last_event == o.items[Len(o.items)]
         IN  IF ExtractError(last_event) \in {"KeyError", "IndexError", "TypeError"}
             THEN HTTPException(502, "Malformed backend response")
             ELSE Completion(IF last_event.id = None THEN "" ELSE last_event.id, "R1")

\* (mutant) one handler for every exception, HTTPException included
OuterHandlerCatchAll(r) ==
    IF r.ctl \in {"exc", "http"} THEN HTTPException(500, "Internal server error") ELSE r

\* `except HTTPException: raise` and `except Exception`
OuterHandler(r) ==
    IF r.ctl = "exc" THEN HTTPException(500, "Internal server error") ELSE r

\* no request has reached the proxy
XIdle ==
    /\ x_pc = "idle"
    /\ x_body = NoBody
    /\ x_sent = 0
    /\ x_backend = NoBackend
    /\ x_response = NoResponse

\* a POST /v1/chat/completions arrives: the handler up to the await of
\* client.post
ChatCompletions ==
    /\ x_pc = "idle"
    /\ \E b \in ProxyBodies :
        /\ x_body' = b
        /\ IF ValidateBody(b).ctl = "proceed"
           THEN x_pc' = "backend" /\ x_response' = x_response
           ELSE x_pc' = "done" /\ x_response' = OuterHandler(ValidateBody(b))
    /\ UNCHANGED <<x_sent, x_backend, avars, p_valves, p_body, p_inbound, p_pc, p_emitter,
                   current_citations, thinking_state, first_chunk, p_requests, p_statuses,
                   p_lines, p_out, emitter_of, qvars, fvars, gvars, mvars>>

\* the request to the backend ends and the handler runs to its end
BackendAnswers ==
    /\ x_pc = "backend"
    /\ \E o \in BackendOutcomes :
        /\ x_backend' = o
        /\ x_sent' = x_sent + 1
        /\ x_response' = OuterHandler(HandleBackend(o))
    /\ x_pc' = "done"
    /\ UNCHANGED <<x_body, avars, p_valves, p_body, p_inbound, p_pc, p_emitter,
                   current_citations, thinking_state, first_chunk, p_requests, p_statuses,
                   p_lines, p_out, emitter_of, qvars, fvars, gvars, mvars>>

\* _process_messages has not been called by itself
MIdle ==
    /\ m_input = <<>>
    /\ m_messages = <<>>
    /\ m_i = 0

PInit == PIdle /\ TIdle /\ GIdle /\ MIdle /\ XIdle

\* the citation lists _format_references is called with; "about:blank" has
\* no network location
RefUrls == Urls \cup {"about:blank"}
Pending == "pending"

\* one of the tasks asyncio.gather runs completes: fetch_page_title of
\* citation i returns
FetchDone ==
    /\ g_result = NotCalled
    /\ \E i \in 1..Len(g_citations), o \in FetchOutcomes :
        /\ g_outcomes[i] = Pending
        /\ g_outcomes' = [g_outcomes EXCEPT ![i] = o]
        /\ g_order' = Append(g_order, i)
    /\ UNCHANGED <<g_citations, g_result, avars, p_valves, p_body, p_inbound, p_pc, p_emitter,
                   current_citations, thinking_state, first_chunk, p_requests, p_statuses,
                   p_lines, p_out, emitter_of, qvars, fvars, mvars, xvars>>

\* every task is done: gather returns the titles in the order of the
\* citations and _format_references builds the block
Gather ==
    /\ g_result = NotCalled
    /\ \A i \in 1..Len(g_citations) : g_outcomes[i] # Pending
    /\ g_result' = FormatReferences(g_citations,
                        [i \in 1..Len(g_citations) |->
                            FetchPageTitle(g_citations[i], g_outcomes[i])])
    /\ UNCHANGED <<g_citations, g_outcomes, g_order, avars, p_valves, p_body, p_inbound, p_pc, p_emitter,
                   current_citations, thinking_state, first_chunk, p_requests, p_statuses,
                   p_lines, p_out, emitter_of, qvars, fvars, mvars, xvars>>

\* the texts and citation lists _transform_references is called with
Chars == {"[", "]", "0", "1", "2", "x"}
Example == <<"See ", "[", "1", "]", " and ", "[", "2", "]">>
TextInputs == SeqsUpTo(Chars, MaxChars) \cup {Example}
CitationInputs == {<<>>, <<"http://a">>, <<"http://a", "http://b">>}

\* a call of _transform_references
Transform ==
    /\ tr_result = NotCalled
    /\ tr_result' = TransformReferences(tr_text, tr_citations)
    /\ UNCHANGED <<tr_text, tr_citations, avars, p_valves, p_body, p_inbound, p_pc, p_emitter,
                   current_citations, thinking_state, first_chunk, p_requests, p_statuses,
                   p_lines, p_out, emitter_of, qvars, gvars, mvars, xvars>>

\* the frame of one call of pipe, the locals of the generator: call 1 is
\* followed by the p_ variables, call 2, a second call on the same Pipe
\* instance, by the q_ variables. What the calls share is the instance:
\* valves, emitter, current_citations, thinking_state.
Frame(c) ==
    IF c = 1
    THEN [pc |-> p_pc, first_chunk |-> first_chunk, requests |-> p_requests,
          lines |-> p_lines, out |-> p_out]
    ELSE [pc |-> q_pc, first_chunk |-> q_first_chunk, requests |-> q_requests,
          lines |-> q_lines, out |-> q_out]

\* the frame of call c becomes f, the other call's stays as it is
Resume(c, f) ==
    IF c = 1
    THEN /\ p_pc' = f.pc /\ first_chunk' = f.first_chunk /\ p_requests' = f.requests
         /\ p_lines' = f.lines /\ p_out' = f.out
         /\ UNCHANGED <<q_pc, q_first_chunk, q_requests, q_lines, q_out>>
    ELSE /\ q_pc' = f.pc /\ q_first_chunk' = f.first_chunk /\ q_requests' = f.requests
         /\ q_lines' = f.lines /\ q_out' = f.out
         /\ UNCHANGED <<p_pc, first_chunk, p_requests, p_lines, p_out>>

\* `if self.emitter: await self.emitter(...)`: the events go to the sink
\* self.emitter holds, the one given to the call emitter_of
Notify(events) ==
    /\ p_statuses' = Emit(p_statuses, events, p_emitter /\ emitter_of = 1)
    /\ q_statuses' = Emit(q_statuses, events, p_emitter /\ emitter_of = 2)

\* first iteration of the generator, up to the POST. The statements between
\* the key check and the `try` are not guarded: the KeyError of body["model"]
\* reaches the consumer (pc = "raised")
PCallOf(c, bodies) ==
    /\ Frame(c).pc \in {"idle", "done", "raised"}
    /\ \E b \in bodies, em \in BOOLEAN :
        /\ p_emitter' = em
        /\ emitter_of' = c
        /\ p_body' = b
        /\ p_inbound' = IF Truthy(p_valves.PERPLEXITY_API_KEY) /\ b.model # None
                            /\ ModelId(b.model) \in VALID_MODELS
                         THEN PProcessMessages(InjectImageIfAny(b.messages))
                         ELSE b.messages
        /\ LET model == b.model
               f == [pc |-> "post", first_chunk |-> TRUE, requests |-> 0, lines |-> <<>>,
                     out |-> <<>>]
           IN  IF ~Truthy(p_valves.PERPLEXITY_API_KEY)
               THEN Resume(c, [f EXCEPT
                        !.out = Tagged(0, <<FormatException(
                                               "Perplexity API Key not configured")>>),
                        !.pc = "done"])
               ELSE IF model = None
               THEN Resume(c, [f EXCEPT !.pc = "raised"])
               ELSE IF ModelId(model) \notin VALID_MODELS
               THEN Resume(c, [f EXCEPT
                        !.out = Tagged(0, <<FormatException(
                                               "Model is not in the valid range")>>),
                        !.pc = "done"])
               ELSE Resume(c, f)
    /\ current_citations' = <<>>
    /\ IF c = 1 THEN p_statuses' = <<>> /\ UNCHANGED q_statuses
       ELSE q_statuses' = <<>> /\ UNCHANGED p_statuses
    /\ UNCHANGED <<p_valves, thinking_state, fvars, gvars, mvars, xvars, avars>>

\* client.stream("POST", ...) and the status check
POpenOf(c) ==
    /\ Frame(c).pc = "post"
    /\ \E o \in {"200", "429", "500", "ConnectError", "ReadTimeout"} :
        LET f == [Frame(c) EXCEPT !.requests = @ + 1]
        IN  IF o = "200"
            THEN /\ Notify(<<Status(<<"AI response is being generated...">>, FALSE)>>)
                 /\ Resume(c, [f EXCEPT !.pc = "stream"])
            ELSE /\ Notify(<<>>)
                 /\ Resume(c, [f EXCEPT
                        !.out = Yield(@, Tagged(0, <<IF o \in {"429", "500"}
                                                     THEN FormatError(o)
                                                     ELSE FormatException(o)>>)),
                        !.pc = "done"])
    /\ UNCHANGED <<p_valves, p_body, p_inbound, p_emitter, emitter_of, current_citations, thinking_state,
                   fvars, gvars, mvars, xvars, avars>>

\* the stream delivers one more line and the decoder handles it
PStreamLineOf(c) ==
    /\ Frame(c).pc = "stream"
    /\ Len(Frame(c).lines) < MaxLines
    /\ \E line \in PerplexityLines :
        LET f == Frame(c)
            d == PDecodeLine(current_citations, thinking_state, line)
            n == Len(f.lines) + 1
            g == [f EXCEPT !.lines = Append(@, line)]
        IN  /\ current_citations' = d.citations
            /\ thinking_state' = d.thinking
            /\ IF d.ctl = "raise"
               THEN /\ Resume(c, [g EXCEPT
                           !.out = Yield(@, Tagged(n, <<FormatException("IndexError")>>)),
                           !.pc = "done"])
                    /\ Notify(<<>>)
               ELSE /\ Resume(c, [g EXCEPT
                           !.out = Yield(@, Tagged(n, d.chunks)),
                           !.first_chunk = (@ /\ ~(d.first /\ p_emitter))])
                    /\ Notify(IF d.first /\ f.first_chunk
                              THEN <<Status(<<"Perplexity is querying online, please wait...">>,
                                            FALSE)>>
                              ELSE <<>>)
    /\ UNCHANGED <<p_valves, p_body, p_inbound, p_emitter, emitter_of, fvars, gvars, mvars, xvars, avars>>

\* the lines are exhausted: references block, completion status, state reset
PStreamEndOf(c) ==
    /\ Frame(c).pc = "stream"
    /\ \E titles \in [1..Len(current_citations) -> {"", "Title"}] :
        Resume(c, [Frame(c) EXCEPT
            !.out = IF current_citations # <<>>
                    THEN Yield(@, Tagged(0, <<FormatReferences(current_citations, titles)>>))
                    ELSE @,
            !.pc = "done"])
    /\ Notify(<<Status(<<"Fetching reference website titles, please wait...">>, FALSE),
                Status(<<"Perplexity generation completed">>, TRUE)>>)
    /\ thinking_state' = -1
    /\ UNCHANGED <<p_valves, p_body, p_inbound, p_emitter, emitter_of, current_citations, fvars, gvars, mvars, xvars, avars>>

\* reading the next line fails (timeout, broken connection)
PStreamAbortOf(c) ==
    /\ Frame(c).pc = "stream"
    /\ Resume(c, [Frame(c) EXCEPT
            !.out = Yield(@, Tagged(0, <<FormatException("ReadTimeout")>>)),
            !.pc = "done"])
    /\ UNCHANGED <<p_valves, p_body, p_inbound, p_emitter, emitter_of, current_citations, thinking_state,
                   p_statuses, q_statuses, fvars, gvars, mvars, xvars, avars>>

\* the consumer stops iterating and closes the generator: GeneratorExit is
\* raised at the `yield` it is suspended at, which `except Exception` does
\* not catch, and only the `async with` blocks are unwound
PAbandonOf(c) ==
    /\ Frame(c).pc = "stream"
    /\ Frame(c).out # <<>>
    /\ Resume(c, [Frame(c) EXCEPT !.pc = "done"])
    /\ UNCHANGED <<p_valves, p_body, p_inbound, p_emitter, emitter_of, current_citations, thinking_state,
                   p_statuses, q_statuses, fvars, gvars, mvars, xvars, avars>>

PCall == PCallOf(1, PlainPBodies)
\* a call with any of the request bodies
PCallAny == PCallOf(1, PRequestBodies)
POpen == POpenOf(1)
PStreamLine == PStreamLineOf(1)
PStreamEnd == PStreamEndOf(1)
PStreamAbort == PStreamAbortOf(1)
PAbandon == PAbandonOf(1)

PNext == PCall \/ POpen \/ PStreamLine \/ PStreamEnd \/ PStreamAbort \/ PAbandon

\* a second call of pipe on the same instance, started while the first is
\* suspended at an await or a yield
QCall == PCallOf(2, PlainPBodies)
QOpen == POpenOf(2)
QStreamLine == PStreamLineOf(2)
QStreamEnd == PStreamEndOf(2)
QStreamAbort == PStreamAbortOf(2)

\* the class defaults of the two Valves models
ADefaults ==
    valves = [ANTHROPIC_API_KEY |-> "Your API Key Here", ENABLE_THINKING |-> FALSE,
              MAX_OUTPUT_TOKENS |-> TRUE, ENABLE_TOOL_CHOICE |-> TRUE]
\* MAX_OUTPUT_TOKENS and ENABLE_TOOL_CHOICE keep their defaults
MaxOutputDefault == valves.MAX_OUTPUT_TOKENS /\ valves.ENABLE_TOOL_CHOICE
PDefaults == p_valves = [PERPLEXITY_API_KEY |-> ""]

Init == AInit /\ MaxOutputDefault /\ PInit /\ PDefaults

\* non-streaming calls on one Pipe instance
Next == Call \/ Attempt

Spec == Init /\ [][Next]_vars

\* a started call is driven to its end: every await of _send_request returns
FairSpec == Spec /\ WF_vars(Attempt)

\* streaming calls on one Pipe instance
NextStream == CallStream \/ StreamOpen \/ StreamLine \/ StreamEnd \/ StreamAbort

SpecStream == Init /\ [][NextStream]_vars

InitPplx == AInit /\ ADefaults /\ PInit

SpecPplx == InitPplx /\ [][PNext]_vars

\* two calls on one Perplexity instance, each made once and interleaved
\* with the other at its awaits and yields; together they read
\* MaxInterleaved lines at most
LinesLeft == Len(p_lines) + Len(q_lines) < MaxInterleaved

NextInterleaved ==
    \/ p_pc = "idle" /\ PCall
    \/ POpen
    \/ LinesLeft /\ PStreamLine
    \/ PStreamEnd
    \/ PStreamAbort
    \/ q_pc = "idle" /\ QCall
    \/ QOpen
    \/ LinesLeft /\ QStreamLine
    \/ QStreamEnd
    \/ QStreamAbort

SpecInterleaved == InitPplx /\ [][NextInterleaved]_vars

\* _transform_references by itself, on every text and citation list
InitRefs ==
    /\ AInit /\ ADefaults /\ PIdle /\ PDefaults /\ GIdle /\ MIdle /\ XIdle
    /\ tr_text \in TextInputs
    /\ tr_citations \in CitationInputs
    /\ tr_result = NotCalled

SpecRefs == InitRefs /\ [][Transform]_vars

\* _format_references by itself, on every citation list, with the title
\* fetches completing in every order and ending in every way
InitTitles ==
    /\ AInit /\ ADefaults /\ PIdle /\ PDefaults /\ TIdle /\ MIdle /\ XIdle
    /\ g_citations \in SeqsUpTo(RefUrls, MaxCitations)
    /\ g_outcomes = [i \in 1..Len(g_citations) |-> Pending]
    /\ g_order = <<>>
    /\ g_result = NotCalled

NextTitles == FetchDone \/ Gather

\* _process_messages by itself, on every list of messages; the loop has no
\* await, so an iteration that can run does run
InitMessages ==
    /\ AInit /\ ADefaults /\ PIdle /\ PDefaults /\ TIdle /\ GIdle /\ XIdle
    /\ m_input \in Histories
    /\ m_messages = m_input
    /\ m_i = 0

\* one request to the proxy, with every body and every answer of the backend
InitProxy == AInit /\ ADefaults /\ PInit /\ PDefaults

NextProxy == ChatCompletions \/ BackendAnswers

SpecProxy == InitProxy /\ [][NextProxy]_vars

SpecMessages == InitMessages /\ [][ProcessMessagesStep]_vars /\ WF_vars(ProcessMessagesStep)

SpecTitles == InitTitles /\ [][NextTitles]_vars

\* the two stream decoders. The adapters are separate objects that share no
\* state, so a behaviour runs one of them and leaves the other untouched;
\* the streams of both are MaxLines lines long at most.
InitDecoders == Init \/ InitPplx

StreamLineShort == Len(lines) < MaxLines /\ StreamLine

NextDecoders ==
    \/ p_pc = "idle" /\ CallStream
    \/ StreamOpen
    \/ StreamLineShort
    \/ StreamEnd
    \/ StreamAbort
    \/ pc = "idle" /\ PCall
    \/ POpen
    \/ PStreamLine
    \/ PStreamEnd
    \/ PStreamAbort

SpecDecoders == InitDecoders /\ [][NextDecoders]_vars

\* every way a request of either adapter can go: the non-streaming calls of
\* the Anthropic pipe with their retries, and the streams of both adapters
NextSinks ==
    \/ p_pc = "idle" /\ Call
    \/ Attempt
    \/ NextDecoders

SpecSinks == InitDecoders /\ [][NextSinks]_vars

\* one streaming call whose stream carries any JSON objects, MaxLines of
\* them at most
NextFrames ==
    \/ requests = 0 /\ CallStream
    \/ StreamOpen
    \/ Len(lines) < MaxLines /\ StreamFrame
    \/ StreamEnd
    \/ StreamAbort

SpecFrames == Init /\ [][NextFrames]_vars

\* the requests of both adapters: every body, valve setting and sink, with
\* the upstream narrowed to a few outcomes. As above, a behaviour runs one
\* adapter; the Anthropic instance may have served requests before
\* (request_id) and the behaviour follows one more.
InitRequest ==
    \/ AIdle(RequestIdHeaders) /\ ~valves.ENABLE_THINKING /\ PInit /\ PDefaults
    \/ InitPplx

CallAnyOnce == pc = "idle" /\ p_pc = "idle" /\ CallAny

NextRequest ==
    \/ CallAnyOnce
    \/ AttemptRequest
    \/ StreamOpen
    \/ StreamEnd
    \/ pc = "idle" /\ PCallAny
    \/ POpen
    \/ PStreamEnd

SpecRequest == InitRequest /\ [][NextRequest]_vars


\* ================================================================= claims
IsRateLimit(o) == o.kind = "response" /\ o.status = "429"
IsTransportFailure(o) ==
    o.kind = "client_error" \/ (o.kind = "response" /\ o.payload = "read_error")
IsOtherStatus(o) ==
    o.kind = "response" /\ o.status \notin {"429", "200"} /\ o.payload # "read_error"
Last(seq) == seq[Len(seq)]
DoneStatuses(log) == SelectSeq(log, LAMBDA e : e.done)

\* the call surfaced `text` once: one value returned and, when a sink was
\* given, exactly one final status, carrying that text
SurfacedOnce(text) ==
    /\ pc = "done"
    /\ result.text = text
    /\ DoneStatuses(statuses) = IF emitter THEN <<Status(text, TRUE)>> ELSE <<>>

\* C1: a non-streaming call whose every attempt was answered with HTTP 429
\* has issued exactly 3 requests when it ends and returns the text
\* 'Max retries exceeded'.
C1_AllRateLimited ==
    (pc = "done" /\ attempts # <<>> /\ \A i \in 1..Len(attempts) : IsRateLimit(attempts[i]))
        => (requests = 3 /\ result = Str(<<"Max retries exceeded">>))

\* C2: whatever the upstream answers, one call of _send_request issues at
\* most 3 HTTP requests, and a call that entered the retry loop always ends.
C2_BoundedAndTerminates ==
    /\ [](requests <= 3 /\ (pc = "send" => requests < 3))
    /\ [](pc = "send" => <>(pc = "done"))

C2_Witness ==
    /\ pc = "done"
    /\ requests = 3
    /\ \E i, j \in 1..Len(attempts) :
          IsRateLimit(attempts[i]) /\ IsTransportFailure(attempts[j])

\* C3: every attempt that was followed by another request ended in a 429 or
\* in a transport failure; a call that ended on another non-200 status
\* returns an error text carrying that status code and, when the response
\* had an x-request-id header, that id.
C3_RetryOnlyAfter429OrTransport ==
    /\ \A i \in 1..Len(attempts) :
          (i < Len(attempts) \/ pc = "send")
              => (IsRateLimit(attempts[i]) \/ IsTransportFailure(attempts[i]))
    /\ (pc = "done" /\ attempts # <<>> /\ IsOtherStatus(Last(attempts)))
          => /\ result.type = "str"
             /\ Contains(result.text, "Error: HTTP ")
             /\ Contains(result.text, Last(attempts).status)
             /\ (Last(attempts).rid # None => Contains(result.text, Last(attempts).rid))

C3_Witness ==
    /\ pc = "done"
    /\ Len(attempts) = 2
    /\ IsRateLimit(attempts[1])
    /\ IsOtherStatus(attempts[2])
    /\ attempts[2].rid = "req_A"
    /\ Contains(result.text, "req_A")

\* the attempt was consumed by the retry loop: a 429 whose back-off was
\* taken, or a transient transport failure
Consumed(o) ==
    \/ IsRateLimit(o) /\ (o.retry_after = "absent" \/ IsIntLiteral(o.retry_after))
    \/ IsTransportFailure(o)
CeilingReached ==
    /\ pc = "done"
    /\ Len(attempts) = max_retries
    /\ \A i \in 1..Len(attempts) : Consumed(attempts[i])

\* C4 as stated: whenever the attempt ceiling is reached, by 429s, transport
\* failures or a mix, the caller gets 'Max retries exceeded', once.
C4_AlwaysRetryExhausted ==
    CeilingReached => SurfacedOnce(<<"Max retries exceeded">>)

\* C4 amended: when the ceiling is reached the caller gets exactly one
\* outcome; it is 'Max retries exceeded' exactly when the third attempt was
\* a 429 (the loop ended with the counter at the ceiling), and
\* 'Request failed: <transport error>' when the third attempt was a
\* transport failure, which _send_request re-raises.
C4_ExhaustedByLastAttempt ==
    /\ CeilingReached =>
          IF IsRateLimit(Last(attempts))
          THEN retry_count = max_retries /\ result.type = "str"
               /\ SurfacedOnce(<<"Max retries exceeded">>)
          ELSE retry_count < max_retries /\ result.type = "dict"
               /\ SurfacedOnce(WithRequestId(<<"Request failed: ", "ClientError">>, request_id))
    /\ (pc = "done" /\ result.text = <<"Max retries exceeded">>)
          => (CeilingReached /\ IsRateLimit(Last(attempts)))

C4_Witness ==
    /\ CeilingReached
    /\ IsRateLimit(attempts[1])
    /\ IsTransportFailure(attempts[3])
    /\ emitter
    /\ result.type = "dict"


\* ------------------------------------------------ reference runs of a stream
TextsOf(chunks) == [i \in 1..Len(chunks) |-> chunks[i].text]
FromLines(chunks) == SelectSeq(chunks, LAMBDA c : c.frame > 0)

\* the chunks _stream_with_ui yields for the lines ls, numbered from n, read
\* in decoder state (th, tc): line by line, up to a break or an exception
RECURSIVE ARun(_, _, _, _, _, _)
ARun(th, tc, ls, n, enable, rid) ==
    IF ls = <<>>
    THEN [chunks |-> <<>>, ctl |-> "next", is_thinking |-> th, thinking_content |-> tc]
    ELSE LET d == DecodeLine(th, tc, Head(ls), enable)
         IN  IF d.ctl = "raise"
             THEN [chunks |-> Tagged(n, <<StreamErrorText(d.exc, rid)>>), ctl |-> "raise",
                   is_thinking |-> d.is_thinking, thinking_content |-> d.thinking_content]
             ELSE IF d.ctl = "break"
             THEN [chunks |-> Tagged(n, d.chunks), ctl |-> "break",
                   is_thinking |-> d.is_thinking, thinking_content |-> d.thinking_content]
             ELSE LET r == ARun(d.is_thinking, d.thinking_content, Tail(ls), n + 1, enable, rid)
                  IN  [r EXCEPT !.chunks = Tagged(n, d.chunks) \o r.chunks]

\* the same for the Perplexity pipe, from citation list cit and thinking state th
RECURSIVE PRun(_, _, _, _)
PRun(cit, th, ls, n) ==
    IF ls = <<>>
    THEN [chunks |-> <<>>, ctl |-> "next", citations |-> cit, thinking |-> th]
    ELSE LET d == PDecodeLine(cit, th, Head(ls))
         IN  IF d.ctl = "raise"
             THEN [chunks |-> Tagged(n, <<FormatException("IndexError")>>), ctl |-> "raise",
                   citations |-> d.citations, thinking |-> d.thinking]
             ELSE LET r == PRun(d.citations, d.thinking, Tail(ls), n + 1)
                  IN  [r EXCEPT !.chunks = Tagged(n, d.chunks) \o r.chunks]

Streaming == result.type = "gen"

\* C5: a streaming call issues one HTTP request and no more, whatever the
\* status; a non-200 status (429 included) yields a single error chunk and
\* ends the stream without a line being read.
C5_StreamNeverRetries ==
    Streaming =>
        /\ requests <= 1
        /\ pc \in {"stream", "done"} => requests = 1
        /\ (attempts # <<>> /\ attempts[1].kind = "response" /\ attempts[1].status # "200")
              => /\ pc = "done"
                 /\ lines = <<>>
                 /\ out = Tagged(0, <<StreamStatusText(attempts[1])>>)

C5_Witness ==
    /\ Streaming
    /\ pc = "done"
    /\ requests = 1
    /\ attempts[1].status = "429"
    /\ Len(out) = 1

C6Frames ==
    <<Line("json", "content_block_start", "thinking", ""),
      Line("json", "content_block_delta", "text", "a"),
      Line("json", "content_block_stop", "", ""),
      Line("json", "content_block_delta", "text", "b")>>

\* C6: the frames [thinking start, delta "a", stop, delta "b"] are emitted
\* as [Thinking heading, "a", Response heading, "b"] with ENABLE_THINKING
\* and as ["b"] without; without it no heading is ever emitted and a delta
\* read in thinking-state emits nothing. (A read that fails after the four
\* frames adds the error chunk of the failure, which no frame produced.)
C6_ThinkingToggle ==
    /\ [](lines = C6Frames =>
             TextsOf(FromLines(out)) = IF valves.ENABLE_THINKING
                                       THEN <<ThinkingHeading, <<"a">>, ResponseHeading,
                                              <<"b">>>>
                                       ELSE <<<<"b">>>>)
    /\ [](~valves.ENABLE_THINKING =>
             \A i \in 1..Len(out) : out[i].text \notin {ThinkingHeading, ResponseHeading})
    /\ [][(/\ ~valves.ENABLE_THINKING
           /\ pc = "stream" /\ is_thinking
           /\ Len(lines') = Len(lines) + 1
           /\ Last(lines').type = "content_block_delta") => out' = out]_vars

C6_Witness ==
    /\ lines = C6Frames
    /\ valves.ENABLE_THINKING
    /\ Len(out) = 4

\* C7: in both decoders the chunks decoded from lines are, at every moment,
\* the chunks of line 1, then those of line 2, ... up to the last line read,
\* each line decoded in the state its predecessors left: nothing is
\* reordered and nothing of a line is held back when the next one is read.
C7_ArrivalOrder ==
    /\ FromLines(out) =
          ARun(FALSE, <<>>, lines, 1, valves.ENABLE_THINKING, request_id).chunks
    /\ \E th0 \in {-1, 0} : FromLines(p_out) = PRun(<<>>, th0, p_lines, 1).chunks
    /\ \A i, j \in 1..Len(out) : (i < j /\ out[j].frame > 0) => out[i].frame <= out[j].frame
    /\ \A i, j \in 1..Len(p_out) :
          (i < j /\ p_out[j].frame > 0) => p_out[i].frame <= p_out[j].frame

C7_Witness ==
    /\ Len(p_lines) = 3
    /\ Len(p_out) = 3
    /\ p_out[1].frame = 1
    /\ p_out[2].frame = 1
    /\ p_out[3].frame = 3

IsBad(line) == line.k = "bad"
NotBad(line) == line.k # "bad"

\* what has been emitted, and the decoder's state, are those of the same
\* stream without the lines json.loads rejects
C8_SameAsWithout ==
    /\ LET r == ARun(FALSE, <<>>, SelectSeq(lines, NotBad), 1, valves.ENABLE_THINKING,
                     request_id)
       IN  /\ TextsOf(FromLines(out)) = TextsOf(r.chunks)
           /\ pc = "stream" => /\ r.ctl = "next"
                               /\ is_thinking = r.is_thinking
                               /\ thinking_content = r.thinking_content
    /\ \E th0 \in {-1, 0} :
          LET r == PRun(<<>>, th0, SelectSeq(p_lines, NotBad), 1)
          IN  /\ FromLines(p_out) = PRun(<<>>, th0, p_lines, 1).chunks
              /\ TextsOf(FromLines(p_out)) = TextsOf(r.chunks)
              /\ p_pc = "stream" => /\ r.ctl = "next"
                                    /\ current_citations = r.citations
                                    /\ thinking_state = r.thinking

IsStop(line) == line.k = "done" \/ (line.k = "json" /\ line.type = "message_stop")

\* C9: once a message_stop frame or the [DONE] marker has been read the
\* stream is over: no further line is read and every chunk emitted was
\* decoded from an earlier line.
C9_StopTerminates ==
    \A i \in 1..Len(lines) :
        IsStop(lines[i]) =>
            /\ pc = "done"
            /\ i = Len(lines)
            /\ \A j \in 1..Len(out) : 0 < out[j].frame /\ out[j].frame < i

C9_Witness ==
    /\ pc = "done"
    /\ Len(lines) = 3
    /\ lines[3].k = "json" /\ lines[3].type = "message_stop"
    /\ Len(out) = 2

HasToolUse(content) == \E i \in 1..Len(content) : IsToolUse(content[i])
IsSuccess(o) == o.kind = "response" /\ o.status = "200" /\ o.payload = "json"

\* C10: a non-streaming 200 response containing a tool_use block returns
\* the tool-call envelope and nothing else: no text or thinking content is
\* part of the returned value, whatever the order of the blocks.
C10_ToolUseOnly ==
    (pc = "done" /\ attempts # <<>> /\ IsSuccess(Last(attempts))
     /\ HasToolUse(Last(attempts).content))
        => /\ result = Str(ToolCallEnvelope(SelectSeq(Last(attempts).content, IsToolUse)))
           /\ \A t \in {"T1", "T2", "K1"} : ~Contains(result.text, t)

\* ------------------------------------------------------ failures and keys
\* the call has ended in one of the failures of pipe: missing key, body
\* without messages, rejected attachment, or an upstream answer that is not
\* a decodable 200
AFailed ==
    /\ pc = "done"
    /\ \/ valves.ANTHROPIC_API_KEY = ""
       \/ TranslationError(body) # <<>>
       \/ attempts # <<>> /\ ~IsSuccess(Last(attempts))

\* C11: no failure of either pipe raises into the caller, and a failed
\* non-streaming Anthropic call returns a string, never a structured object.
C11_FailuresAreText ==
    /\ p_pc # "raised"
    /\ (AFailed /\ ~Streaming) => result.type = "str"

NoKeyText == <<"Error: ANTHROPIC_API_KEY is required">>

\* C12: with an empty API key each pipe issues no network request and ends
\* at once with its configuration error (the Anthropic one also as the one
\* done status when a sink was given).
C12_NoKeyNoRequest ==
    /\ valves.ANTHROPIC_API_KEY = "" =>
          /\ requests = 0
          /\ attempts = <<>>
          /\ pc \in {"idle", "done"}
          /\ pc = "done" => /\ result.text = NoKeyText
                            /\ statuses = IF emitter THEN <<Status(NoKeyText, TRUE)>> ELSE <<>>
    /\ p_valves.PERPLEXITY_API_KEY = "" =>
          /\ p_requests = 0
          /\ p_pc \in {"idle", "done"}
          /\ p_pc = "done" =>
                TextsOf(p_out) = <<FormatException("Perplexity API Key not configured")>>

C12_Witness ==
    /\ valves.ANTHROPIC_API_KEY = ""
    /\ pc = "done"
    /\ body.stream
    /\ Len(body.messages) = 2
    /\ emitter
    /\ requests = 0

\* --------------------------------------------------- request translation
MiB == 1024 * 1024

\* the item is inline and its size, len(base64) * 3 / 4, exceeds the ceiling
\* of its kind (3 * len > 4 * ceiling avoids the fraction)
Oversized(item) ==
    /\ item.inline
    /\ \/ item.type = "image_url" /\ 3 * item.size > 4 * (5 * MiB)
       \/ item.type = "pdf_url" /\ 3 * item.size > 4 * (32 * MiB)
OutsideAllowList(item) ==
    /\ item.inline
    /\ item.type = "image_url"
    /\ item.media_type \notin {"image/jpeg", "image/png", "image/gif", "image/webp"}

\* the call got as far as pipe's request translation
Translating == pc # "idle" /\ valves.ANTHROPIC_API_KEY # "" /\ body.has_messages
\* pipe built a payload and went on to the vendor call
Translated == payload # NoPayload

C14_MaxTokensCapped ==
    LET name == payload.model
        ceiling == IF name \in DOMAIN MODEL_MAX_TOKENS THEN MODEL_MAX_TOKENS[name] ELSE 4096
        requested == body.max_tokens
    IN  /\ Translated =>
              /\ payload.max_tokens <= ceiling
              /\ (valves.MAX_OUTPUT_TOKENS \/ requested = <<>>) => payload.max_tokens = ceiling
              /\ (~valves.MAX_OUTPUT_TOKENS /\ requested # <<>>) =>
                    payload.max_tokens = IF requested[1] <= ceiling THEN requested[1]
                                         ELSE ceiling
              /\ body.model = "gpt-4" => ceiling = 4096
              /\ body.model = "anthropic/claude-3-5-sonnet-latest" => ceiling = 8192
        /\ (Translating /\ body.messages = <<>>) => Translated

C14_Witness ==
    /\ pc = "done"
    /\ requests = 1
    /\ ~valves.MAX_OUTPUT_TOKENS
    /\ body.model = "gpt-4"
    /\ body.max_tokens = <<100000>>
    /\ payload.max_tokens = 4096
    /\ result = Str(<<"T1">>)

\* ------------------------------------------------------- calls on one instance
\* C15: with two calls interleaved on one instance, the chunks each call has
\* emitted are those of its own lines, decoded from the state of a fresh
\* call (empty citation list; thinking not started, or started by an
\* earlier stream): nothing the other call wrote shows in them.
C15_CallsIsolated ==
    /\ \E th0 \in {-1, 0} : FromLines(p_out) = PRun(<<>>, th0, p_lines, 1).chunks
    /\ \E th0 \in {-1, 0} : FromLines(q_out) = PRun(<<>>, th0, q_lines, 1).chunks

\* C16: a request id shown in the value a call returns is the x-request-id
\* of a response received by that call; a call that received no response
\* shows none.
C16_RequestIdOwn ==
    (pc = "done" /\ Contains(result.text, "req_A"))
        => \E i \in 1..Len(attempts) :
              attempts[i].kind = "response" /\ attempts[i].rid = "req_A"

\* C17: between two requests the thinking state of the Perplexity decoder is
\* 'not started' (-1), however the last stream ended.
C17_ThinkingStateReset ==
    p_pc \in {"idle", "done", "raised"} => thinking_state = -1

\* C18: a call that was given a sink and has ended has notified it with a
\* status whose done flag is true.
C18_DoneNotified ==
    (pc = "done" /\ emitter) => DoneStatuses(statuses) # <<>>

\* ------------------------------------------------------------- citations
\* the markers of a text: the pairs <<i, j>> of a "[" at i and a "]" at j
\* with one digit or more, and nothing else, between them
Markers(text) ==
    {ij \in (1..Len(text)) \X (1..Len(text)) :
        /\ ij[2] > ij[1] + 1
        /\ text[ij[1]] = "[" /\ text[ij[2]] = "]"
        /\ \A k \in (ij[1] + 1)..(ij[2] - 1) : text[k] \in Digits}

\* what a marker with number n stands for after rewriting
Rewritten(digits, citations) ==
    LET n == IntOfDigits(digits)
    IN  <<"[", "[">> \o digits \o <<"]", "]">>
        \o (IF 1 <= n /\ n <= Len(citations) THEN <<"(", citations[n], ")">> ELSE <<>>)

\* the text with every marker rewritten and every other character kept
RewrittenText(text, citations) ==
    LET M == Markers(text)
    IN  Flatten([i \in 1..Len(text) |->
            IF \E ij \in M : ij[1] = i
            THEN LET m == CHOOSE ij \in M : ij[1] = i
                 IN  Rewritten(SubSeq(text, i + 1, m[2] - 1), citations)
            ELSE IF \E ij \in M : ij[1] < i /\ i <= ij[2]
            THEN <<>>
            ELSE <<text[i]>>])

\* C19: _transform_references turns each marker [n] with 1 <= n <=
\* len(citations) into [[n]](citations[n-1]) and every other marker [n] into
\* [[n]], keeps every other character, returns a text without markers as it
\* is, and maps "See [1] and [2]" with ["http://a", "http://b"] to
\* "See [[1]](http://a) and [[2]](http://b)".
C19_TransformReferences ==
    tr_result # NotCalled =>
        /\ tr_result = RewrittenText(tr_text, tr_citations)
        /\ Markers(tr_text) = {} => tr_result = tr_text
        /\ (tr_text = Example /\ tr_citations = <<"http://a", "http://b">>) =>
              tr_result = <<"See ", "[", "[", "1", "]", "]", "(", "http://a", ")", " and ",
                            "[", "[", "2", "]", "]", "(", "http://b", ")">>

C19_Witness ==
    /\ tr_text = <<"[", "2", "]", "[", "0", "]">>
    /\ tr_citations = <<"http://a", "http://b">>
    /\ tr_result = <<"[", "[", "2", "]", "]", "(", "http://b", ")", "[", "[", "0", "]", "]">>

\* the citation list as it stands once line n is read: that of the last
\* frame up to n that has a "citations" field, the empty list of the start
\* of the call when there is none
CitationsAt(ls, n) ==
    LET S == {i \in 1..n : ls[i].has_citations}
    IN  IF S = {} THEN <<>> ELSE ls[CHOOSE i \in S : \A j \in S : j <= i].citations

ChunksOf(chunks, n) == SelectSeq(chunks, LAMBDA c : c.frame = n)

\* the rewriting of every content a frame can carry, against every list a
\* frame can have delivered, computed once
RewrittenTexts ==
    [text \in Contents, citations \in {<<>>} \cup CitationLists |->
        RewrittenText(text, citations)]
IsReferences(c) == c.frame = 0 /\ c.text[1] = "\n\n<details>\n<summary>Reference Websites</summary>"

\* every content delta read so far was emitted rewritten against the list
\* of its own moment, and a references block is built from the last list
C20_RewrittenAsOfFrame ==
    /\ \A n \in 1..Len(p_lines) :
          (p_lines[n].k = "json" /\ p_lines[n].content # <<>>) =>
              /\ ChunksOf(p_out, n) # <<>>
              /\ Last(ChunksOf(p_out, n)).text =
                    RewrittenTexts[p_lines[n].content, CitationsAt(p_lines, n)]
    /\ \A i \in 1..Len(p_out) :
          IsReferences(p_out[i]) =>
              /\ i = Len(p_out)
              /\ CitationsAt(p_lines, Len(p_lines)) # <<>>
              /\ \E titles \in [1..Len(CitationsAt(p_lines, Len(p_lines))) -> {"", "Title"}] :
                    p_out[i].text = FormatReferences(CitationsAt(p_lines, Len(p_lines)), titles)
    /\ (p_emitter /\ DoneStatuses(p_statuses) # <<>> /\ CitationsAt(p_lines, Len(p_lines)) # <<>>)
          => (p_out # <<>> /\ IsReferences(Last(p_out)))

\* C20: in a Perplexity stream each content delta is rewritten against the
\* citation list of the most recent frame with a `citations` field at or
\* before its own frame; what has been emitted is never changed by a later
\* frame; the references block at the end uses the last list received.
C20_CitationsAsOfDelta ==
    /\ []C20_RewrittenAsOfFrame
    /\ [][p_pc = "stream" =>
            (Len(p_out') >= Len(p_out) /\ SubSeq(p_out', 1, Len(p_out)) = p_out)]_vars

C20_Witness ==
    /\ p_pc = "done"
    /\ Len(p_lines) = 3
    /\ p_lines[1].citations = <<"http://a">> /\ p_lines[1].content = Example
    /\ ~p_lines[2].has_citations /\ p_lines[2].content = Example
    /\ p_lines[3].citations = <<"http://a", "http://b">> /\ p_lines[3].content = <<>>
    /\ Len(p_out) = 3
    /\ p_out[1].text = p_out[2].text
    /\ ~Contains(p_out[2].text, "http://b")
    /\ IsReferences(p_out[3])
    /\ Contains(p_out[3].text, "http://b")

\* --------------------------------------------------------- references block
\* the label of a citation whose title could not be fetched
DomainLabel(url) ==
    CASE url = "http://a" -> "a" [] url = "http://b" -> "b" [] url = "about:blank" -> "unknown"

\* C21: whatever the title fetches end in and in whatever order they
\* complete, the references block of n citations has exactly n entries,
\* numbered 1..n in citation order, each with its own URL; the entry of a
\* fetch that failed, timed out or found no title carries the domain of its
\* own URL, the entry of every other citation its fetched title.
C21_AllEntriesKept ==
    g_result # NotCalled =>
        LET n == Len(g_citations)
            Entry(i) == SubSeq(g_result, 7 * i - 5, 7 * i + 1)
        IN  IF n = 0 THEN g_result = <<>>
            ELSE /\ Len(g_result) = 7 * n + 3
                 /\ g_result[1] = "\n\n<details>\n<summary>Reference Websites</summary>"
                 /\ SubSeq(g_result, 7 * n + 2, 7 * n + 3) = <<"\n", "</details>">>
                 /\ \A i \in 1..n :
                       Entry(i) =
                          IF g_outcomes[i] = "title"
                          THEN <<"\n", ToString(i), ": [", TitleOf(g_citations[i]), "](",
                                 g_citations[i], ")">>
                          ELSE <<"\n", ToString(i), ": [News source: ",
                                 DomainLabel(g_citations[i]), "](", g_citations[i], ")">>

C21_Witness ==
    /\ g_result # NotCalled
    /\ g_citations = <<"http://a", "http://b", "about:blank">>
    /\ g_outcomes = <<"timeout", "title", "not_200">>
    /\ g_order = <<3, 1, 2>>
    /\ Contains(g_result, "Title B")

\* ------------------------------------------------------ the caller's body
\* C22: in both adapters the caller's body is after the call what it was
\* before: its messages list, each message and each content item.
C22_InboundUnchanged ==
    /\ inbound = body.messages
    /\ p_inbound = p_body.messages

\* ------------------------------------------------------------ the payload
\* C23: no key of a payload that was sent upstream has the value None.
C23_NoNoneInPayload ==
    requests > 0 => \A k \in DOMAIN payload.params : payload.params[k] # None

\* the valve settings that differ from the call's own in the toggles only
Toggles ==
    {[valves EXCEPT !.ENABLE_THINKING = t, !.MAX_OUTPUT_TOKENS = m, !.ENABLE_TOOL_CHOICE = c] :
        t \in BOOLEAN, m \in BOOLEAN, c \in BOOLEAN}

\* C24: the beta flags of a request that was sent are those the same body
\* gets under every other setting of the toggles.
C24_FlagsFromContentOnly ==
    requests > 0 => \A v \in Toggles : BetaHeaders(body, v) = headers

\* ------------------------------------------------------------ the back-off
\* C25: the attempt numbered k from 0 that was answered 429 is followed by a
\* sleep of the retry-after header's value when the header is there and of
\* base_delay * 2^k when it is not.
C25_RateLimitBackoff ==
    \A i \in 1..Len(attempts) :
        attempts[i].kind = "response" /\ attempts[i].status = "429" =>
            /\ Len(slept) >= i
            /\ slept[i] = IF attempts[i].retry_after = "absent"
                          THEN base_delay * Pow2(i - 1)
                          ELSE IntOf(attempts[i].retry_after)

\* C26: the attempt numbered k from 0 that failed in the transport and is
\* retried is followed by a sleep of base_delay * 2^k.
C26_TransportBackoff ==
    \A i \in 1..Len(attempts) :
        attempts[i].kind = "client_error" /\ i < max_retries =>
            /\ Len(slept) >= i
            /\ slept[i] = base_delay * Pow2(i - 1)

\* ------------------------------------------------- the thinking content
\* C27: a content_block_delta with text read in thinking-state appends its
\* text to thinking_content with the toggle on and with it off, and yields
\* a chunk exactly when the toggle is on.
C27_AlwaysAccumulated ==
    [][(/\ pc = "stream" /\ is_thinking
        /\ Len(lines') = Len(lines) + 1
        /\ Last(lines').type = "content_block_delta"
        /\ Last(lines').sub = "text")
       => /\ thinking_content' = thinking_content \o <<Last(lines').text>>
          /\ (out' # out) <=> valves.ENABLE_THINKING]_vars

\* ------------------------------------------------- frames of other kinds
\* a frame none of the branches handles, read in thinking-state th
Unhandled(l, th) ==
    /\ l.k = "json"
    /\ \/ l.type \in {"ping", "message_start", "message_delta"}
       \/ l.type = "content_block_start" /\ l.sub = "text"
       \/ l.type = "content_block_stop" /\ ~th

\* C28: reading a frame of an unhandled type (ping, message_start,
\* message_delta, a content_block_start of inner type text, a
\* content_block_stop outside thinking-state) yields no chunk and no status,
\* leaves is_thinking and thinking_content as they were and leaves the
\* generator reading.
C28_UnhandledIgnored ==
    [][(/\ pc = "stream"
        /\ Len(lines') = Len(lines) + 1
        /\ Unhandled(Last(lines'), is_thinking))
       => /\ out' = out
          /\ statuses' = statuses
          /\ is_thinking' = is_thinking
          /\ thinking_content' = thinking_content
          /\ pc' = "stream"]_vars

C28_Witness ==
    /\ pc = "stream"
    /\ lines = <<Line("json", "ping", "", ""),
                 Line("json", "content_block_start", "text", ""),
                 Line("json", "content_block_delta", "text", "a")>>
    /\ TextsOf(out) = <<<<"a">>>>

\* a JSON object without a key the decoder subscripts, read in
\* thinking-state th
LacksField(l, th) ==
    /\ l.k = "json"
    /\ \/ l.type = None
       \/ l.type = "content_block_start" /\ l.sub \in {None, "tool_use_flat"}
       \/ l.type = "content_block_delta" /\ l.sub = None /\ ~th

IsStreamError(text) == text # <<>> /\ text[1] = "Stream error: "

\* C29: reading a JSON frame without `type`, a content_block_start without
\* `content_block`, a content_block_delta without `delta` outside
\* thinking-state or a tool_use block without the nested `tool_use` yields
\* one 'Stream error' chunk, sends a done status with that text to the sink
\* and ends the generator; once it has ended no line is read.
C29_MissingFieldEndsStream ==
    /\ [][(/\ pc = "stream"
           /\ Len(lines') = Len(lines) + 1
           /\ LacksField(Last(lines'), is_thinking))
          => /\ Len(out') = Len(out) + 1
             /\ SubSeq(out', 1, Len(out)) = out
             /\ IsStreamError(Last(out').text)
             /\ pc' = "done"
             /\ emitter => /\ Len(statuses') = Len(statuses) + 1
                           /\ Last(statuses').done
                           /\ IsStreamError(Last(statuses').description)]_vars
    /\ [][pc = "done" => lines' = lines]_vars

C29_Witness ==
    /\ pc = "done"
    /\ emitter
    /\ lines = <<Line("json", "content_block_delta", "text", "a"),
                 Line("json", None, "", "")>>
    /\ Len(out) = 2
    /\ IsStreamError(out[2].text)
    /\ Last(statuses).done

\* ------------------------------------------------ the non-streaming text
\* the call has ended with a 200 response that has no tool_use block
AnsweredWithText ==
    /\ pc = "done" /\ attempts # <<>> /\ IsSuccess(Last(attempts))
    /\ ~HasToolUse(Last(attempts).content)

\* the text of the first block of the response that passes Test, "" when
\* there is none
FirstOf(Test(_)) ==
    LET blocks == SelectSeq(Last(attempts).content, Test)
    IN  IF blocks # <<>> THEN blocks[1].val ELSE ""

WithThinking == <<"### Thinking\n", FirstOf(IsThinking), "\n\n### Response\n", FirstOf(IsText)>>

\* C30 as stated: the result of a 200 response without tool_use block is
\* the first text block, preceded by the Thinking heading, the first
\* thinking block and the Response heading exactly when ENABLE_THINKING is
\* set and that thinking text is not empty.
C30_ThinkingWhenEnabled ==
    AnsweredWithText =>
        result = Str(IF valves.ENABLE_THINKING /\ FirstOf(IsThinking) # ""
                     THEN WithThinking ELSE <<FirstOf(IsText)>>)

\* C30, amended: ... exactly when ENABLE_THINKING is set, the model is
\* claude-3-7-sonnet-latest and that thinking text is not empty.
C30_ThinkingWhenEnabledAndSupported ==
    AnsweredWithText =>
        result = Str(IF /\ valves.ENABLE_THINKING
                        /\ payload.model = "claude-3-7-sonnet-latest"
                        /\ FirstOf(IsThinking) # ""
                     THEN WithThinking ELSE <<FirstOf(IsText)>>)

C30_Witness ==
    /\ AnsweredWithText
    /\ valves.ENABLE_THINKING
    /\ payload.model = "claude-3-7-sonnet-latest"
    /\ Last(attempts).content = <<[type |-> "thinking", val |-> "K1"],
                                  [type |-> "text", val |-> "T1"]>>
    /\ result = Str(<<"### Thinking\n", "K1", "\n\n### Response\n", "T1">>)

\* ------------------------------------------------- tool calls in a stream
\* C31: reading a content_block_start of inner type tool_use, in
\* thinking-state or not, yields one tool-call envelope chunk at the end of
\* the output so far, leaves the thinking state as it was and leaves the
\* generator reading.
C31_ToolUseEnvelope ==
    [][(/\ pc = "stream"
        /\ Len(lines') = Len(lines) + 1
        /\ Last(lines').k = "json"
        /\ Last(lines').type = "content_block_start"
        /\ Last(lines').sub \in {"tool_use", "tool_use_flat"})
       => /\ TextsOf(out') = TextsOf(out) \o <<ToolCallChunk>>
          /\ is_thinking' = is_thinking
          /\ pc' = "stream"]_vars

\* ------------------------------------------------ alternation of roles
\* the loop of _process_messages has ended
Processed == ~(m_i < Len(m_messages) - 1)

\* the messages of list at the positions of S, in order
RECURSIVE PickFrom(_, _, _)
PickFrom(list, S, j) ==
    IF j > Len(list) THEN <<>>
    ELSE (IF j \in S THEN <<list[j]>> ELSE <<>>) \o PickFrom(list, S, j + 1)

\* m at position j is a placeholder put between two messages of equal role
IsPlaceholderBetween(m, S, j) ==
    /\ j - 1 \in S /\ j + 1 \in S
    /\ m[j - 1].role = m[j + 1].role
    /\ m[j].content = <<"[Unfinished thinking]">>
    /\ m[j].role \in {"user", "assistant"} \ {m[j - 1].role}

\* C32: the loop of _process_messages ends, and when it has ended no two
\* adjacent messages have the same role, the messages passed in are in the
\* list unchanged and in their order, and every other message is a
\* placeholder of the alternate role between two of them that have the same
\* role; it is the list pipe is modelled to leave.
C32_RolesAlternate ==
    /\ <>[]Processed
    /\ [](Processed =>
            /\ \A j \in 1..(Len(m_messages) - 1) : m_messages[j].role # m_messages[j + 1].role
            /\ \E S \in SUBSET (1..Len(m_messages)) :
                  /\ PickFrom(m_messages, S, 1) = m_input
                  /\ \A j \in (1..Len(m_messages)) \ S : IsPlaceholderBetween(m_messages, S, j)
            /\ m_messages = PProcessMessages(m_input))

C32_Witness ==
    /\ Processed
    /\ m_input = <<[role |-> "user", content |-> <<"hi">>],
                   [role |-> "user", content |-> <<"[Unfinished thinking]">>],
                   [role |-> "assistant", content |-> <<"hi">>],
                   [role |-> "assistant", content |-> <<"hi">>]>>
    /\ Len(m_messages) = 6
    /\ m_messages[2] = [role |-> "assistant", content |-> <<"[Unfinished thinking]">>]
    /\ m_messages[5] = [role |-> "user", content |-> <<"[Unfinished thinking]">>]

\* ------------------------------------------------------ PDF attachments
\* C33: a request with a pdf_url item, whose attachments pass the size and
\* media type checks, is rejected with an 'Error: ...' value exactly when the
\* model of the body, without its prefix, is not PDF-capable; otherwise it
\* is translated.
C33_PdfByTargetModel ==
    (/\ Translating
     /\ \E i \in 1..Len(body.messages) : body.messages[i].type = "pdf_url"
     /\ \A i \in 1..Len(body.messages) :
            ~Oversized(body.messages[i]) /\ ~OutsideAllowList(body.messages[i]))
        => IF ModelName(body.model) \in SUPPORTED_PDF_MODELS
           THEN Translated
           ELSE ~Translated /\ pc = "done" /\ requests = 0 /\ result.text[1] = "Error: "

\* ---------------------------------------------------- one done status
\* at most one status of log has done = true, and it is the last
DoneOnceAtEnd(log) == \A i \in 1..Len(log) : log[i].done => i = Len(log)

\* C34: in the statuses a request has sent to its sink, in either adapter,
\* at most one has done = true and none follows it.
C34_DoneOnce ==
    /\ DoneOnceAtEnd(statuses)
    /\ DoneOnceAtEnd(p_statuses)
    /\ DoneOnceAtEnd(q_statuses)

C34_Witness ==
    /\ pc = "done"
    /\ lines # <<>> /\ Last(lines).type = "message_stop"
    /\ Len(statuses) = 2
    /\ ~statuses[1].done
    /\ statuses[2] = Status(<<"Request completed">>, TRUE)

\* ------------------------------------------------- the thinking markers
\* how many of the first n chunks of out are the heading h
Headings(h, n) == Cardinality({i \in 1..n : out[i].text = h})

\* a thinking content_block_start is among ls with no content_block_stop
\* after it
ThinkingOpen(ls) ==
    \E i \in 1..Len(ls) :
        /\ ls[i].k = "json" /\ ls[i].type = "content_block_start" /\ ls[i].sub = "thinking"
        /\ \A j \in (i + 1)..Len(ls) :
               ~(ls[j].k = "json" /\ ls[j].type = "content_block_stop")

\* C35: with ENABLE_THINKING, no prefix of the output of a stream has more
\* Response headings than Thinking headings, and is_thinking is set exactly
\* when a thinking content_block_start has been read and no
\* content_block_stop after it.
C35_MarkersBalanced ==
    valves.ENABLE_THINKING =>
        /\ \A n \in 0..Len(out) : Headings(ResponseHeading, n) <= Headings(ThinkingHeading, n)
        /\ is_thinking <=> ThinkingOpen(lines)

C35_Witness ==
    /\ valves.ENABLE_THINKING
    /\ pc = "stream"
    /\ lines = <<Line("json", "content_block_start", "thinking", ""),
                 Line("json", "content_block_start", "thinking", ""),
                 Line("json", "content_block_stop", "", ""),
                 Line("json", "content_block_stop", "", "")>>
    /\ TextsOf(out) = <<ThinkingHeading, ThinkingHeading, ResponseHeading>>
    /\ ~is_thinking

\* the request's failure cases, read off the request itself
MessagesMissingOrEmpty ==
    /\ x_body.t = "object"
    /\ x_body.mt = "absent" \/ (x_body.mt = "list" /\ x_body.messages = <<>>)

LastChatMessage == x_body.messages[Len(x_body.messages)]

HasLastObject ==
    x_body.t = "object" /\ x_body.mt = "list" /\ x_body.messages # <<>> /\ LastChatMessage.obj

ContentMissing == HasLastObject /\ ~LastChatMessage.has_content

ContentBlankOrNoString ==
    /\ HasLastObject
    /\ LastChatMessage.has_content
    /\ \/ LastChatMessage.content.t # "str"
       \/ \A k \in 1..Len(LastChatMessage.content.v) : LastChatMessage.content.v[k] = " "

\* the backend's failure cases, read off what the backend did
EventsUnusable ==
    /\ x_backend.kind = "response"
    /\ x_backend.status = "200"
    /\ x_backend.payload = "json"
    /\ \/ x_backend.t # "list"
       \/ x_backend.items = <<>>
       \/ x_backend.items[Len(x_backend.items)].shape # "ok"

\* the inputs the handler has no branch for
UnexpectedInput ==
    \/ x_body.t = "number"
    \/ x_body.t = "object" /\ x_body.mt = "number"
    \/ x_body.t = "object" /\ x_body.mt = "list" /\ x_body.messages # <<>> /\ ~LastChatMessage.obj
    \/ x_backend.kind = "read_error"

\* C36: every failure of POST /v1/chat/completions has its fixed status:
\* missing or empty messages, missing content and blank or non-string
\* content give 400 with no request sent to the backend; a backend timeout
\* gives 504, a connection failure 503, a backend error status 502, an empty,
\* non-list or malformed events answer 502; and 500 is the status of an
\* unexpected exception only.
C36_FixedStatuses ==
    x_pc = "done" =>
        /\ (MessagesMissingOrEmpty \/ ContentMissing \/ ContentBlankOrNoString)
               => (x_response.status = 400 /\ x_sent = 0)
        /\ x_backend.kind = "timeout" => x_response.status = 504
        /\ x_backend.kind = "connect_error" => x_response.status = 503
        /\ (x_backend.kind = "response" /\ x_backend.status # "200") => x_response.status = 502
        /\ EventsUnusable => x_response.status = 502
        /\ x_response.status = 500 => UnexpectedInput
        /\ x_response.status \in {400, 500} => x_sent = 0 \/ x_backend.kind = "read_error"

\* a valid request whose call of the backend timed out was answered 504
C36_Witness ==
    /\ x_pc = "done"
    /\ x_sent = 1
    /\ x_backend.kind = "timeout"
    /\ x_response.ctl = "http"
    /\ x_response.status = 504

====
